---- MODULE Spec2Model ----
(***************************************************************************)
(* piglit: the dispatch loop of framework/profile.py (Collection.run) as   *)
(* called by the run command of framework/programs/run.py.                 *)
(*                                                                         *)
(* The main thread filters the profiles, counts the surviving tests,       *)
(* creates the two multiprocessing.dummy pools and hands every profile's   *)
(* tests to pool.imap in chunks of ten; pool worker threads run the        *)
(* chunks, one test after the other, through the nested function test().   *)
(***************************************************************************)
EXTENDS Integers, Sequences, FiniteSets, TLC

\* ------------------------------------------------------------------ bounds
MaxProfiles == 2      \* profiles given to one run
MaxShort == 3         \* tests of a run whose lists take every flag pattern
MaxTests == 11        \* length of the long test list (more than one chunk)
Cores == 2            \* workers of multiprocessing.dummy.Pool()
MaxFaults == 1        \* tests of one run that do not simply pass
MaxDepth == 2         \* allow_reassignment scopes nested in one another
MaxOrder == 2         \* names in a list given to reorder or forced
MaxLines == 5         \* lines deqp prints between its banner and its totals
MaxTotal == 2         \* the number of cases the totals of a group declare
MaxGroups == 2        \* groups of a dEQP profile in group mode
MaxMarkers == 4       \* lines a self-reporting test prints
MaxFiles == 2         \* files given to one shader_runner process
MaxOut == 4           \* lines on its stdout after the first marker
MaxErr == 2           \* lines on its stderr

\* ------------------------------------------------------- program constants
ChunkSize == 10       \* third argument of pool.imap

VARIABLES
    profiles,     \* Collection.profiles: sequence of [concurrency, test_list]
    tests,        \* tests[p][i]: what happened to test i of profile p
    pc,           \* where the main thread is
    cur,          \* index of the profile the for loop is at
    step,         \* which run_threads call of that profile comes next
    pools,        \* state of the pools `single' and `multi'
    job,          \* the imap job the main thread iterates: [pool, chunks]
    chunks,       \* per chunk of the job: [st, pos, exc]
    waitIdx,      \* index of the chunk whose result the main thread awaits
    error,        \* the exception that left the run, [kind, msg, pool]
    backend,      \* the sink: [initialized, summary, finalized]
    faults,       \* number of tests that did not simply pass so far
    container,    \* TestDict.__container: sequence of [key, value]
    allow_reassignment,   \* TestDict.__allow_reassignment
    scopes,       \* `with test_list.allow_reassignment:' blocks now open
    last,         \* the last call made on the test list and what it gave
    attempt,      \* DEQPBaseTest._run_command: [n, st] of its retry loop
    interp,       \* the last interpret_result call: its input and outcome
    grouprun      \* a dEQP run in group mode: its groups, sink and rerun list

schedVars == <<profiles, tests, pc, cur, step, pools, job, chunks, waitIdx,
               error, backend, faults>>

dictVars == <<container, allow_reassignment, scopes, last>>

testVars == <<attempt, interp, grouprun>>

vars == <<profiles, tests, pc, cur, step, pools, job, chunks, waitIdx,
          error, backend, faults, container, allow_reassignment, scopes,
          last, attempt, interp, grouprun>>

Min(a, b) == IF a < b THEN a ELSE b

Concurrency == {"all", "none", "some"}

\* A test as the dispatch loop sees it: only its run_concurrent flag matters.
ShortLists == UNION {[1..n -> BOOLEAN] : n \in 0..MaxShort}

LongList == [i \in 1..MaxTests |-> TRUE]

RECURSIVE SumLen(_)
SumLen(ps) ==
    IF ps = <<>> THEN 0 ELSE Len(Head(ps).test_list) + SumLen(Tail(ps))

\* The runs explored: every split of up to MaxShort tests, with every flag
\* pattern, over the profiles, and the runs with one list of MaxTests tests.
Runs ==
    {ps \in UNION {[1..n -> [concurrency : Concurrency,
                             test_list : ShortLists \cup {LongList}]] :
                   n \in 1..MaxProfiles} :
        \/ SumLen(ps) <= MaxShort
        \/ /\ SumLen(ps) = MaxTests
           /\ \E p \in 1..Len(ps) : ps[p].test_list = LongList}

\* What the filters of a profile remove: nothing, the first test, everything.
Exclusions == {"nothing", "first", "everything"}

\* TestProfile.filter as Collection.run sees it: the survivors, in order.
Filter(test_list, ex) ==
    CASE ex = "nothing" -> test_list
      [] ex = "first" -> IF test_list = <<>> THEN <<>> ELSE Tail(test_list)
      [] ex = "everything" -> <<>>

NoJob == [pool |-> "none", profile |-> 0, chunks |-> <<>>]

NoExc == [kind |-> "none", msg |-> ""]

NoError == [kind |-> "none", msg |-> "", pool |-> "none"]

NewTest ==
    [phase |-> "queued", outcome |-> "none", pool |-> "none",
     ndispatch |-> 0, sink |-> "absent", handle |-> "closed",
     raised |-> "none"]

NoCall == [op |-> "none"]

\* TestDict.__init__: an empty container, reassignment not allowed.
\* No test is being executed or interpreted.
TestsIdle ==
    /\ attempt = [n |-> 0, st |-> "idle", err |-> <<>>, exc |-> NoError]
    /\ interp = [op |-> "none"]
    /\ grouprun = [st |-> "idle"]

NewTestDict ==
    /\ container = <<>>
    /\ allow_reassignment = 0
    /\ scopes = 0
    /\ last = NoCall

Init ==
    /\ NewTestDict
    /\ TestsIdle
    /\ profiles \in Runs
    /\ tests = <<>>
    /\ pc = "initialize"
    /\ cur = 0
    /\ step = 0
    /\ pools = [single |-> "absent", multi |-> "absent"]
    /\ job = NoJob
    /\ chunks = <<>>
    /\ waitIdx = 0
    /\ error = NoError
    /\ backend = [initialized |-> FALSE, summary |-> FALSE, finalized |-> FALSE]
    /\ faults = 0

\* ------------------------------------------------------------ main thread

\* run(): the backend is created and initialized before testrun.run.
BackendInitialize ==
    /\ pc = "initialize"
    /\ backend' = [backend EXCEPT !.initialized = TRUE]
    /\ pc' = "run"
    /\ UNCHANGED <<profiles, tests, cur, step, pools, job, chunks, waitIdx,
                   error, faults>>
    /\ UNCHANGED <<dictVars, testVars>>

\* The test for an empty run, letting a run of no tests through.
NoTestsMutant(num_tests) == num_tests < 0

\* `if num_tests <= 0'
NoTests(num_tests) == num_tests <= 0

\* Collection.run up to the for loop: filter, count, raise or open the pools.
RunStart ==
    /\ pc = "run"
    /\ \E ex \in [1..Len(profiles) -> Exclusions] :
        LET filtered == [p \in 1..Len(profiles) |->
                            [profiles[p] EXCEPT
                                !.test_list = Filter(@, ex[p])]]
            num_tests == SumLen(filtered)
        IN  /\ profiles' = filtered
            /\ tests' = [p \in 1..Len(filtered) |->
                            [i \in 1..Len(filtered[p].test_list) |-> NewTest]]
            /\ IF NoTests(num_tests)
               THEN /\ error' = [kind |-> "PiglitFatalError",
                                 msg |-> "There are no tests scheduled to run, aborting.",
                                 pool |-> "none"]
                    /\ pc' = "raised"
                    /\ UNCHANGED <<pools, cur, step>>
               ELSE /\ pools' = [single |-> "RUN", multi |-> "RUN"]
                    /\ pc' = "loop"
                    /\ cur' = 1
                    /\ step' = 1
                    /\ UNCHANGED error
    /\ UNCHANGED <<job, chunks, waitIdx, backend, faults>>
    /\ UNCHANGED <<dictVars, testVars>>

\* The calls of the `some' branch in the other order.
PlanMutant(concurrency) ==
    CASE concurrency = "all" -> <<[pool |-> "multi", sel |-> "every"]>>
      [] concurrency = "none" -> <<[pool |-> "single", sel |-> "every"]>>
      [] OTHER -> <<[pool |-> "single", sel |-> "serial"],
                    [pool |-> "multi", sel |-> "concurrent"]>>

\* The run_threads calls of one profile, in order: the pool and the tests
\* the iterable lets through.
Plan(concurrency) ==
    CASE concurrency = "all" -> <<[pool |-> "multi", sel |-> "every"]>>
      [] concurrency = "none" -> <<[pool |-> "single", sel |-> "every"]>>
      [] OTHER -> <<[pool |-> "multi", sel |-> "concurrent"],
                    [pool |-> "single", sel |-> "serial"]>>

\* The second lambda without its `not'.
SelectedMutant(sel, run_concurrent) ==
    CASE sel = "every" -> TRUE
      [] sel = "concurrent" -> run_concurrent
      [] sel = "serial" -> run_concurrent

\* The filter lambdas of the `some' branch.
Selected(sel, run_concurrent) ==
    CASE sel = "every" -> TRUE
      [] sel = "concurrent" -> run_concurrent
      [] sel = "serial" -> ~run_concurrent

RECURSIVE Pick(_, _, _)
\* The indices from i on of the tests of test_list that sel lets through.
Pick(test_list, sel, i) ==
    IF i > Len(test_list) THEN <<>>
    ELSE IF Selected(sel, test_list[i])
         THEN <<i>> \o Pick(test_list, sel, i + 1)
         ELSE Pick(test_list, sel, i + 1)

\* Pool._get_tasks: consecutive batches of at most size items.
GetTasks(ids, size) ==
    [k \in 1..((Len(ids) + size - 1) \div size) |->
        SubSeq(ids, (k - 1) * size + 1, Min(k * size, Len(ids)))]

\* run_threads up to the for loop: pool.imap(test, iterable, 10).
Dispatch ==
    /\ pc = "loop"
    /\ cur <= Len(profiles)
    /\ LET call == Plan(profiles[cur].concurrency)[step]
           ids == Pick(profiles[cur].test_list, call.sel, 1)
       IN  IF pools[call.pool] # "RUN"
           THEN /\ error' = [kind |-> "PoolNotRunning",
                             msg |-> "Pool not running", pool |-> call.pool]
                /\ pc' = "raised"
                /\ UNCHANGED <<tests, job, chunks, waitIdx>>
           ELSE /\ job' = [pool |-> call.pool, profile |-> cur,
                           chunks |-> GetTasks(ids, ChunkSize)]
                /\ chunks' = [k \in 1..Len(job'.chunks) |->
                                 [st |-> "queued", pos |-> 0, exc |-> NoExc]]
                /\ waitIdx' = 1
                /\ tests' = [tests EXCEPT ![cur] =
                                [i \in 1..Len(@) |->
                                    IF \E n \in 1..Len(ids) : ids[n] = i
                                    THEN [@[i] EXCEPT
                                            !.pool = call.pool,
                                            !.ndispatch = @ + 1]
                                    ELSE @[i]]]
                /\ pc' = "iterating"
                /\ UNCHANGED error
    /\ UNCHANGED <<profiles, cur, step, pools, backend, faults>>
    /\ UNCHANGED <<dictVars, testVars>>

\* What test() returns when it does not raise.
TestReturn == "None"

\* isinstance(o, Exception)
IsException(o) == o \in {"MonitorRuleBroken", "Exception"}

\* One turn of `for o in pool.imap(...)': the results come back in order, a
\* chunk at a time; the exception of a failed chunk is raised by next().
NextResult ==
    /\ pc = "iterating"
    /\ waitIdx <= Len(chunks)
    /\ chunks[waitIdx].st \in {"ok", "failed"}
    /\ IF chunks[waitIdx].st = "ok"
       THEN IF IsException(TestReturn)
            THEN /\ pools' = [pools EXCEPT ![job.pool] = "TERMINATE"]
                 /\ error' = [kind |-> TestReturn, msg |-> "",
                              pool |-> job.pool]
                 /\ pc' = "raised"
                 /\ UNCHANGED waitIdx
            ELSE /\ waitIdx' = waitIdx + 1
                 /\ UNCHANGED <<pools, error, pc>>
       ELSE /\ error' =
                IF chunks[waitIdx].exc.kind = "MonitorRuleBroken"
                THEN [kind |-> "PiglitAbort",
                      msg |-> chunks[waitIdx].exc.msg, pool |-> job.pool]
                ELSE [kind |-> chunks[waitIdx].exc.kind,
                      msg |-> chunks[waitIdx].exc.msg, pool |-> job.pool]
            /\ pc' = "raised"
            /\ UNCHANGED <<pools, waitIdx>>
    /\ UNCHANGED <<profiles, tests, cur, step, job, chunks, backend, faults>>
    /\ UNCHANGED <<dictVars, testVars>>

\* The end of run_threads: pool.close(), pool.join(); then the next call.
CloseJoin ==
    /\ pc = "iterating"
    /\ waitIdx > Len(chunks)
    /\ pools' = [pools EXCEPT ![job.pool] = "CLOSE"]
    /\ IF step < Len(Plan(profiles[cur].concurrency))
       THEN step' = step + 1 /\ UNCHANGED cur
       ELSE step' = 1 /\ cur' = cur + 1
    /\ pc' = "loop"
    /\ UNCHANGED <<profiles, tests, job, chunks, waitIdx, error, backend,
                   faults>>
    /\ UNCHANGED <<dictVars, testVars>>

\* After the for loop: log.get().summary().
Summary ==
    /\ pc = "loop"
    /\ cur > Len(profiles)
    /\ backend' = [backend EXCEPT !.summary = TRUE]
    /\ pc' = "returned"
    /\ UNCHANGED <<profiles, tests, cur, step, pools, job, chunks, waitIdx,
                   error, faults>>
    /\ UNCHANGED <<dictVars, testVars>>

\* run(): backend.finalize after testrun.run has returned.
Finalize ==
    /\ pc = "returned"
    /\ backend' = [backend EXCEPT !.finalized = TRUE]
    /\ pc' = "done"
    /\ UNCHANGED <<profiles, tests, cur, step, pools, job, chunks, waitIdx,
                   error, faults>>
    /\ UNCHANGED <<dictVars, testVars>>

\* --------------------------------------------------------- pool workers

\* multiprocessing.dummy.Pool(1) and multiprocessing.dummy.Pool().
\* A serial pool made with as many workers as the concurrent one.
WorkersMutant(pool) == Cores

\* multiprocessing.dummy.Pool(1) and Pool(): the worker threads of a pool.
Workers(pool) == IF pool = "single" THEN 1 ELSE Cores

Running == {k \in 1..Len(chunks) : chunks[k].st = "running"}

\* The test a running chunk is at.
At(k) == job.chunks[k][chunks[k].pos]

TestAt(k) == tests[job.profile][At(k)]

SetTest(k, t) == [tests EXCEPT ![job.profile][At(k)] = t]

\* A worker thread takes the next task (a chunk) from the pool's queue.
TakeChunk(k) ==
    /\ pools[job.pool] = "RUN"
    /\ chunks[k].st = "queued"
    /\ \A j \in 1..(k - 1) : chunks[j].st # "queued"
    /\ Cardinality(Running) < Workers(job.pool)
    /\ chunks' = [chunks EXCEPT ![k] = [@ EXCEPT !.st = "running", !.pos = 1]]
    /\ UNCHANGED <<profiles, tests, pc, cur, step, pools, job, waitIdx,
                   error, backend, faults>>
    /\ UNCHANGED <<dictVars, testVars>>

\* test(): `with backend.write_test(name) as w' is entered; the backend
\* records the test as incomplete.
OpenHandle(k) ==
    /\ chunks[k].st = "running"
    /\ TestAt(k).phase = "queued"
    /\ tests' = SetTest(k, [TestAt(k) EXCEPT !.phase = "opened",
                                            !.sink = "incomplete",
                                            !.handle = "open"])
    /\ UNCHANGED <<profiles, pc, cur, step, pools, job, chunks, waitIdx,
                   error, backend, faults>>
    /\ UNCHANGED <<dictVars, testVars>>

\* test(): test.execute(name, log.get(), _dmesg, _monitor) is called.
BeginExecute(k) ==
    /\ chunks[k].st = "running"
    /\ TestAt(k).phase = "opened"
    /\ tests' = SetTest(k, [TestAt(k) EXCEPT !.phase = "executing"])
    /\ UNCHANGED <<profiles, pc, cur, step, pools, job, chunks, waitIdx,
                   error, backend, faults>>
    /\ UNCHANGED <<dictVars, testVars>>

\* How Test.execute can end: the output is interpreted, a parse error of the
\* interpreter is caught and recorded, or the monitor raises its signal.
Outcomes == {"pass", "parse_error", "monitor"}

\* test.result.result once execute has ended.
ExecuteResult(outcome) ==
    CASE outcome = "pass" -> "pass"
      [] outcome = "parse_error" -> "fail"
      [] outcome = "monitor" -> "pass"

\* An execute that lets the interpreter's parse error out as well.
ExecuteRaisesMutant(outcome) == outcome \in {"monitor", "parse_error"}

\* Whether execute leaves by raising MonitorRuleBroken.
ExecuteRaises(outcome) == outcome = "monitor"

\* test.execute returns or raises.
EndExecute(k) ==
    /\ chunks[k].st = "running"
    /\ TestAt(k).phase = "executing"
    /\ \E o \in Outcomes :
        /\ o # "pass" => faults < MaxFaults
        /\ faults' = IF o = "pass" THEN faults ELSE faults + 1
        /\ tests' = SetTest(k, [TestAt(k) EXCEPT !.phase = "executed",
                                                !.outcome = o])
    /\ UNCHANGED <<profiles, pc, cur, step, pools, job, chunks, waitIdx,
                   error, backend>>
    /\ UNCHANGED <<dictVars, testVars>>

\* test(): `error' after the try statement: the caught MonitorRuleBroken.
CaughtError(outcome) ==
    IF ExecuteRaises(outcome)
    THEN [kind |-> "MonitorRuleBroken", msg |-> "rule broken"]
    ELSE NoExc

\* A test() whose write sits inside the try statement, after execute.
WritesResultMutant(outcome) == outcome # "monitor"

\* test(): w(test.result) is reached whatever execute did.
WritesResult(outcome) == TRUE

\* test(): `if error is not None: raise error'.
Reraises(err) == err # NoExc

\* A handle that is released on the normal path only.
ExitHandleMutant(raised) == IF raised THEN "open" ELSE "released"

\* The handle's state once the with statement has been left.
ExitHandle(raised) == "released"

\* mapstar: a test that raises ends its chunk, the rest of which never runs.
ChunkAfter(c, len, exc) ==
    IF exc # NoExc THEN [c EXCEPT !.st = "failed", !.exc = exc]
    ELSE IF c.pos = len THEN [c EXCEPT !.st = "ok"]
    ELSE [c EXCEPT !.pos = c.pos + 1]

\* test() from w(test.result) to the end of the with statement. The write
\* itself can fail (sinkfail): the backend's exception then leaves test().
Finish(k) ==
    /\ chunks[k].st = "running"
    /\ TestAt(k).phase = "executed"
    /\ \E sinkfail \in BOOLEAN :
        LET t == TestAt(k)
            err == CaughtError(t.outcome)
            exc == IF WritesResult(t.outcome) /\ sinkfail
                   THEN [kind |-> "Exception", msg |-> "write failed"]
                   ELSE IF Reraises(err) THEN err ELSE NoExc
        IN  /\ sinkfail => faults < MaxFaults
            /\ faults' = IF sinkfail THEN faults + 1 ELSE faults
            /\ tests' = SetTest(k,
                  [t EXCEPT
                     !.phase = IF exc # NoExc THEN "raised" ELSE "done",
                     !.raised = exc.kind,
                     !.sink = IF WritesResult(t.outcome) /\ ~sinkfail
                              THEN ExecuteResult(t.outcome) ELSE @,
                     !.handle = ExitHandle(exc # NoExc)])
            /\ chunks' = [chunks EXCEPT
                            ![k] = ChunkAfter(@, Len(job.chunks[k]), exc)]
    /\ UNCHANGED <<profiles, pc, cur, step, pools, job, waitIdx, error,
                   backend>>
    /\ UNCHANGED <<dictVars, testVars>>

Next ==
    \/ BackendInitialize
    \/ RunStart
    \/ Dispatch
    \/ NextResult
    \/ CloseJoin
    \/ Summary
    \/ Finalize
    \/ \E k \in 1..Len(chunks) : TakeChunk(k)
    \/ \E k \in 1..Len(chunks) : OpenHandle(k)
    \/ \E k \in 1..Len(chunks) : BeginExecute(k)
    \/ \E k \in 1..Len(chunks) : EndExecute(k)
    \/ \E k \in 1..Len(chunks) : Finish(k)

Spec == Init /\ [][Next]_vars

TypeOK ==
    /\ pc \in {"initialize", "run", "loop", "iterating", "returned", "done",
               "raised"}
    /\ faults \in 0..MaxFaults
    /\ \A p \in 1..Len(tests) : \A i \in 1..Len(tests[p]) :
        tests[p][i].ndispatch \in 0..1

\* ------------------------------------------------------- the test list
\* Names are strings; a string is modelled as the sequence of its characters
\* so that lower() and upper() act on it.
LowerChar(c) ==
    CASE c = "A" -> "a"
      [] c = "B" -> "b"
      [] c = "C" -> "c"
      [] OTHER -> c

UpperChar(c) ==
    CASE c = "a" -> "A"
      [] c = "b" -> "B"
      [] c = "c" -> "C"
      [] OTHER -> c

Lower(s) == [i \in 1..Len(s) |-> LowerChar(s[i])]

Upper(s) == [i \in 1..Len(s) |-> UpperChar(s[i])]

\* The names a caller uses: three tests, each spelled in either case.
Keys == {<<"a">>, <<"A">>, <<"b">>, <<"B">>, <<"c", "/", "1">>,
         <<"C", "/", "1">>}

LowerKeys == {Lower(s) : s \in Keys}

Tests == {"t1", "t2"}

\* What a caller may hand to __setitem__: text or not, a Test or not.
KeyInputs == [text : BOOLEAN, s : Keys]

ValueInputs == [test : BOOLEAN, v : Tests]

Range(f) == {f[i] : i \in DOMAIN f}

\* OrderedDict lookup: the position of key k, 0 when it is absent.
Find(c, k) ==
    IF \E i \in 1..Len(c) : c[i].key = k
    THEN CHOOSE i \in 1..Len(c) : c[i].key = k
    ELSE 0

\* OrderedDict.__setitem__: a present key keeps its place, a new one is last.
OdSet(c, k, v) ==
    IF Find(c, k) # 0
    THEN [c EXCEPT ![Find(c, k)].value = v]
    ELSE Append(c, [key |-> k, value |-> v])

\* OrderedDict.__delitem__ at a position.
OdDel(c, i) == [j \in 1..(Len(c) - 1) |-> IF j < i THEN c[j] ELSE c[j + 1]]

FoldKeyMutant(s) == s

\* key.lower() of __setitem__, __getitem__ and __delitem__.
FoldKey(s) == Lower(s)

\* `not self.__allow_reassignment': the counter read as a truth value.
ReassignmentAllowed(n) == n # 0

\* TestDict.__setitem__.
DictSet(c, n, key, value) ==
    IF ~key.text
    THEN [container |-> c, err |-> "keys must be strings"]
    ELSE IF ~value.test
    THEN [container |-> c, err |-> "values must be a Test"]
    ELSE LET k == FoldKey(key.s)
             i == Find(c, k)
         IN IF ~ReassignmentAllowed(n) /\ i # 0
            THEN [container |-> c,
                  err |-> IF c[i].value # value.v
                          THEN "already assigned, not the same"
                          ELSE "already assigned, the same"]
            ELSE [container |-> OdSet(c, k, value.v), err |-> "none"]

\* TestDict.__getitem__.
DictGet(c, s) ==
    LET i == Find(c, FoldKey(s))
    IN IF i = 0 THEN [err |-> "KeyError", value |-> "none"]
       ELSE [err |-> "none", value |-> c[i].value]

\* TestDict.__delitem__.
DictDel(c, s) ==
    LET i == Find(c, FoldKey(s))
    IN IF i = 0 THEN [container |-> c, err |-> "KeyError"]
       ELSE [container |-> OdDel(c, i), err |-> "none"]

\* `key in test_list': Mapping.__contains__ tries __getitem__.
DictContains(c, s) == DictGet(c, s).err = "none"

\* A callable given to filter, as the set of the items it returns truthy for.
AllItems == [key : LowerKeys, value : Tests]

Predicates ==
    {{e \in AllItems : e.key \in K /\ e.value \in V} :
        K \in SUBSET LowerKeys, V \in SUBSET Tests}

KeepsMutant(pred, e) == e \notin pred

\* `if not callable_((k, v)): del self[k]' keeps the item when this holds.
Keeps(pred, e) == e \in pred

\* TestDict.filter: walk a copy of the items, delete what the callable rejects.
RECURSIVE DictFilter(_, _, _)
DictFilter(c, items, pred) ==
    IF items = <<>> THEN c
    ELSE IF Keeps(pred, Head(items))
    THEN DictFilter(c, Tail(items), pred)
    ELSE DictFilter(DictDel(c, Head(items).key).container, Tail(items), pred)

MissingIsErrorMutant(allow_missing) == FALSE

\* `if not allow_missing: raise' of reorder.
MissingIsError(allow_missing) == ~allow_missing

OrderKeyMutant(k) == Lower(k)

\* `self.__container[k]' of reorder: the name as the list gives it.
OrderKey(k) == k

\* TestDict.reorder: fill `new' in the order of the list, then swap it in.
RECURSIVE Reorder(_, _, _, _)
Reorder(c, order, allow_missing, new) ==
    IF order = <<>> THEN [container |-> new, err |-> "none", name |-> <<>>]
    ELSE LET k == Head(order)
             i == Find(c, OrderKey(k))
         IN IF i # 0
            THEN Reorder(c, Tail(order), allow_missing, OdSet(new, k, c[i].value))
            ELSE IF MissingIsError(allow_missing)
            THEN [container |-> c, err |-> "Cannot reorder test", name |-> k]
            ELSE Reorder(c, Tail(order), allow_missing, new)

\* Lists of names given to reorder and as forced_test_list; "A" names no
\* stored test, stored names being lower case.
OrderNames == LowerKeys \cup {<<"A">>}

Orders == UNION {[1..n -> OrderNames] : n \in 0..MaxOrder}

\* A compiled regular expression, as the set of paths its search() finds a
\* match in; a ReList is a sequence of them.
ReA == {<<"a">>}

ReBC == {<<"b">>, <<"c", "/", "1">>}

ReC == {<<"c", "/", "1">>}

\* The regex list a profile's options start with: no regex.
DefaultReList == <<>>

\* The filters a profile module appends to TestProfile.filters.
FilterT1 == {e \in AllItems : e.value = "t1"}

FilterNotB == {e \in AllItems : e.key # <<"b">>}

\* What TestProfile.filter reads: self.filters, the two regex lists of
\* self.options and options.OPTIONS.exclude_tests.
FilterConfigs ==
    [filters : {<<>>, <<FilterT1, FilterNotB>>},
     include_filter : {<<>>, <<ReA>>, <<ReA, ReBC>>},
     exclude_filter : {<<>>, <<ReA, ReC>>},
     exclude_tests : {{}, {<<"b">>}}]

Search(r, x) == x \in r

MatchesAnyRegexp(x, re_list) ==
    \E n \in 1..Len(re_list) : Search(re_list[n], x)

TestMatchesMutant(cfg, path) ==
    /\ MatchesAnyRegexp(path, cfg.include_filter)
    /\ path \notin cfg.exclude_tests
    /\ ~MatchesAnyRegexp(path, cfg.exclude_filter)

\* test_matches of TestProfile.filter.
TestMatches(cfg, path) ==
    /\ cfg.include_filter = <<>> \/ MatchesAnyRegexp(path, cfg.include_filter)
    /\ path \notin cfg.exclude_tests
    /\ ~MatchesAnyRegexp(path, cfg.exclude_filter)

\* check_all of TestProfile.filter: self.filters + [test_matches], each asked.
CheckAll(cfg, e) ==
    /\ \A n \in 1..Len(cfg.filters) : e \in cfg.filters[n]
    /\ TestMatches(cfg, e.key)

ApplyForcedMutant(c, forced) ==
    DictFilter(c, c, {e \in AllItems : e.key \in Range(forced)})

\* `if self.forced_test_list:' filter by membership, then reorder.
ApplyForced(c, forced) ==
    Reorder(DictFilter(c, c, {e \in AllItems : e.key \in Range(forced)}),
            forced, TRUE, <<>>).container

\* TestProfile.filter on a test list c.
ProfileFilterResult(c, forced, cfg) ==
    LET c1 == IF forced # <<>> THEN ApplyForced(c, forced) ELSE c
    IN DictFilter(c1, c1, {e \in AllItems : CheckAll(cfg, e)})

\* The status of a test in the results file that resume loads.
Statuses == {"pass", "crash", "incomplete"}

PersistedResults == UNION {[S -> Statuses] : S \in SUBSET LowerKeys}

RetriedMutant(no_retry, result) == ~no_retry

\* `if args.no_retry or result.result != 'incomplete'' excludes the test;
\* this is its negation.
Retried(no_retry, result) == ~(no_retry \/ result # "incomplete")

\* The loop of resume that fills options.OPTIONS.exclude_tests.
ExcludeTests(results, no_retry) ==
    {name \in DOMAIN results : ~Retried(no_retry, results[name])}

\* The state a fresh run is in while a profile's test list is being built.
SchedulerIdle ==
    /\ profiles = <<>>
    /\ tests = <<>>
    /\ pc = "initialize"
    /\ cur = 0
    /\ step = 0
    /\ pools = [single |-> "absent", multi |-> "absent"]
    /\ job = NoJob
    /\ chunks = <<>>
    /\ waitIdx = 0
    /\ error = NoError
    /\ backend = [initialized |-> FALSE, summary |-> FALSE, finalized |-> FALSE]
    /\ faults = 0

InitDict ==
    /\ NewTestDict
    /\ TestsIdle
    /\ SchedulerIdle

\* test_list[key] = value
SetItem ==
    /\ last = NoCall
    /\ \E key \in KeyInputs, value \in ValueInputs :
        LET r == DictSet(container, allow_reassignment, key, value)
        IN /\ container' = r.container
           /\ last' = [op |-> "set", key |-> key, value |-> value,
                       before |-> container, scopes |-> scopes,
                       err |-> r.err]
           /\ UNCHANGED <<allow_reassignment, scopes>>
           /\ UNCHANGED <<schedVars, testVars>>

\* test_list[key]
GetItem ==
    /\ last = NoCall
    /\ \E key \in Keys :
        LET r == DictGet(container, key)
        IN /\ last' = [op |-> "get", key |-> key, before |-> container,
                       err |-> r.err, ret |-> r.value]
           /\ UNCHANGED <<container, allow_reassignment, scopes>>
           /\ UNCHANGED <<schedVars, testVars>>

\* del test_list[key]
DelItem ==
    /\ last = NoCall
    /\ \E key \in Keys :
        LET r == DictDel(container, key)
        IN /\ container' = r.container
           /\ last' = [op |-> "del", key |-> key, before |-> container,
                       err |-> r.err]
           /\ UNCHANGED <<allow_reassignment, scopes>>
           /\ UNCHANGED <<schedVars, testVars>>

\* key in test_list
Contains ==
    /\ last = NoCall
    /\ \E key \in Keys :
        /\ last' = [op |-> "contains", key |-> key, before |-> container,
                    err |-> "none", ret |-> DictContains(container, key)]
        /\ UNCHANGED <<container, allow_reassignment, scopes>>
        /\ UNCHANGED <<schedVars, testVars>>

\* `with test_list.allow_reassignment:' is entered: the generator runs up to
\* its yield.
EnterScope ==
    /\ last = NoCall
    /\ allow_reassignment < MaxDepth
    /\ allow_reassignment' = allow_reassignment + 1
    /\ scopes' = scopes + 1
    /\ last' = [op |-> "enter", before |-> container, scopes |-> scopes,
                counter |-> allow_reassignment, err |-> "none"]
    /\ UNCHANGED container
    /\ UNCHANGED <<schedVars, testVars>>

\* The body of the innermost with block ends normally: the generator is
\* resumed and runs the statement after its yield.
ExitScope ==
    /\ last = NoCall
    /\ scopes > 0
    /\ allow_reassignment' = allow_reassignment - 1
    /\ scopes' = scopes - 1
    /\ last' = [op |-> "exit", before |-> container, scopes |-> scopes,
                counter |-> allow_reassignment, err |-> "none"]
    /\ UNCHANGED container
    /\ UNCHANGED <<schedVars, testVars>>

\* The body of the innermost with block raises: the exception is thrown into
\* the generator at its yield, which has no try around it, so the statement
\* after the yield is not run.
ExitScopeRaising ==
    /\ last = NoCall
    /\ scopes > 0
    /\ scopes' = scopes - 1
    /\ last' = [op |-> "exit", before |-> container, scopes |-> scopes,
                counter |-> allow_reassignment, err |-> "raised in body"]
    /\ UNCHANGED <<container, allow_reassignment>>
    /\ UNCHANGED <<schedVars, testVars>>

\* test_list.filter(callable_)
FilterTests ==
    /\ last = NoCall
    /\ \E pred \in Predicates :
        /\ container' = DictFilter(container, container, pred)
        /\ last' = [op |-> "filter", pred |-> pred, before |-> container,
                    err |-> "none"]
        /\ UNCHANGED <<allow_reassignment, scopes>>
        /\ UNCHANGED <<schedVars, testVars>>

\* test_list.reorder(order, allow_missing)
ReorderTests ==
    /\ last = NoCall
    /\ \E order \in Orders, allow_missing \in BOOLEAN :
        LET r == Reorder(container, order, allow_missing, <<>>)
        IN /\ container' = r.container
           /\ last' = [op |-> "reorder", order |-> order,
                       allow_missing |-> allow_missing, before |-> container,
                       err |-> r.err, name |-> r.name]
           /\ UNCHANGED <<allow_reassignment, scopes>>
           /\ UNCHANGED <<schedVars, testVars>>

\* profile.filter(), called by Collection.run once the profile is loaded.
ProfileFilter ==
    /\ last = NoCall
    /\ \E forced \in Orders, cfg \in FilterConfigs :
        /\ scopes = 0
        /\ container' = ProfileFilterResult(container, forced, cfg)
        /\ last' = [op |-> "profile_filter", forced |-> forced, cfg |-> cfg,
                    before |-> container, err |-> "none"]
        /\ UNCHANGED <<allow_reassignment, scopes>>
        /\ UNCHANGED <<schedVars, testVars>>

\* resume: the recorded tests fill the exclude set, then Collection.run
\* filters the reloaded profile, whose regex lists are the default ones and
\* whose forced list is empty.
Resume ==
    /\ last = NoCall
    /\ \E results \in PersistedResults, no_retry \in BOOLEAN,
       filters \in {cfg.filters : cfg \in FilterConfigs} :
        LET cfg == [filters |-> filters, include_filter |-> DefaultReList,
                    exclude_filter |-> DefaultReList,
                    exclude_tests |-> ExcludeTests(results, no_retry)]
        IN /\ scopes = 0
           /\ container' = ProfileFilterResult(container, <<>>, cfg)
           /\ last' = [op |-> "resume", results |-> results,
                       no_retry |-> no_retry, cfg |-> cfg,
                       before |-> container, err |-> "none"]
           /\ UNCHANGED <<allow_reassignment, scopes>>
           /\ UNCHANGED <<schedVars, testVars>>

\* The test lists of the profiles given to update: TestDicts of at most
\* MaxOrder tests.
OtherLists ==
    {o \in UNION {[1..n -> AllItems] : n \in 0..MaxOrder} :
        \A a, b \in 1..Len(o) : o[a].key = o[b].key => a = b}

\* MutableMapping.update(other) of a TestDict: self[key] = other[key] for
\* every key of other, in its order; the first assignment that raises ends
\* the update and leaves what was assigned before it.
RECURSIVE DictUpdate(_, _, _, _)
DictUpdate(c, n, other, i) ==
    IF i > Len(other) THEN [container |-> c, err |-> "none"]
    ELSE LET r == DictSet(c, n, [text |-> TRUE, s |-> other[i].key],
                          [test |-> TRUE, v |-> other[i].value])
         IN IF r.err # "none" THEN r
            ELSE DictUpdate(r.container, n, other, i + 1)

\* profile.update(other)
Update ==
    /\ last = NoCall
    /\ \E other \in OtherLists :
        LET r == DictUpdate(container, allow_reassignment, other, 1)
        IN /\ container' = r.container
           /\ last' = [op |-> "update", other |-> other,
                       before |-> container, scopes |-> scopes,
                       err |-> r.err]
           /\ UNCHANGED <<allow_reassignment, scopes>>
           /\ UNCHANGED <<schedVars, testVars>>

\* The call returns and its caller goes on.
Return ==
    /\ last # NoCall
    /\ last' = NoCall
    /\ UNCHANGED <<container, allow_reassignment, scopes>>
    /\ UNCHANGED <<schedVars, testVars>>

NextDict ==
    \/ SetItem
    \/ GetItem
    \/ DelItem
    \/ Contains
    \/ EnterScope
    \/ ExitScope
    \/ ExitScopeRaising
    \/ FilterTests
    \/ ReorderTests
    \/ ProfileFilter
    \/ Resume
    \/ Update
    \/ Return

SpecDict == InitDict /\ [][NextDict]_vars

\* ------------------------------------------------------- dEQP tests
\* DEQPBaseTest._run_command: `for _ in range(5)'.
Retries == 5

\* `"FATAL ERROR: Failed to open display" not in self.result.err' decides
\* whether the loop body returns; the loop goes on when it does not.
RetryAgainMutant(sig) == TRUE

RetryAgain(sig) == sig

\* raise TestRunError('Failed to connect to X server 5 times', 'fail')
XServerError ==
    [kind |-> "TestRunError", status |-> "fail",
     msg |-> "Failed to connect to X server 5 times"]

\* One pass through the body of the loop of _run_command: the command runs,
\* its stderr holds the signature (sig) or not; the pass that ends the range
\* falls through to the raise.
RunCommand ==
    /\ attempt.st \in {"idle", "running"}
    /\ attempt.n < Retries
    /\ interp = [op |-> "none"]
    /\ grouprun = [st |-> "idle"]
    /\ \E sig \in BOOLEAN :
        LET err == Append(attempt.err, sig)
        IN attempt' =
            IF ~RetryAgain(sig)
            THEN [n |-> attempt.n + 1, st |-> "returned", err |-> err,
                  exc |-> NoError]
            ELSE IF attempt.n + 1 = Retries
            THEN [n |-> attempt.n + 1, st |-> "raised", err |-> err,
                  exc |-> XServerError]
            ELSE [n |-> attempt.n + 1, st |-> "running", err |-> err,
                  exc |-> NoError]
    /\ UNCHANGED <<interp, grouprun>>
    /\ UNCHANGED <<schedVars, dictVars>>

\* The standard output of deqp, split into lines. A line is known by what the
\* interpreters ask of it: how it starts, how it ends, its third character.
\*   case     "Test case '<dotted name>'.."
\*   info     a line that starts with INFO; dash: it ends with "----"
\*   indent   a line that starts with two spaces; code: its third character
\*   summary  "  <label>: <count>/<total> (..)" of the run totals; code is
\*            the first letter of the label, wide: <count> has two digits
\*   text     any other line that is not blank
\*   blank    an empty line
CaseNames == {<<"g", ".", "0">>, <<"g", ".", "A">>}

CaseLine(n) == [k |-> "case", name |-> n]

InfoLine(d) == [k |-> "info", dash |-> d]

IndentLine(c) == [k |-> "indent", code |-> c]

SummaryLine(c, w, t) == [k |-> "summary", code |-> c, wide |-> w, total |-> t]

TextLine == [k |-> "text"]

BlankLine == [k |-> "blank"]

\* cur = '': no line read yet.
NoLine == [k |-> "none"]

\* l.startswith('INFO')
StartsWithInfo(l) == l.k = "info"

\* l.endswith('----')
EndsWithDashes(l) == l.k = "info" /\ l.dash

\* l.startswith('  ')
StartsWithSpaces(l) == l.k \in {"indent", "summary"}

\* l.startswith('Test case')
StartsWithTestCase(l) == l.k = "case"

\* DEQPBaseTest._RESULT_MAP
_RESULT_MAP ==
    [c \in {"P", "F", "Q", "I", "C", "N", "R"} |->
        CASE c = "P" -> "pass"
          [] c = "F" -> "fail"
          [] c = "Q" -> "warn"
          [] c = "I" -> "fail"
          [] c = "C" -> "crash"
          [] c = "N" -> "skip"
          [] c = "R" -> "crash"]

\* Lines dropped from the front and from the end of the output before the
\* scan: the banner of deqp and its run totals.
BannerLines == 3

TotalsLines == 8

\* str.rstrip() followed by split('\n'): no blank line is left at the end.
RECURSIVE RStrip(_)
RStrip(out) ==
    IF out # <<>> /\ out[Len(out)].k = "blank"
    THEN RStrip(SubSeq(out, 1, Len(out) - 1))
    ELSE out

\* lines[a:] and lines[:-b] of Python.
DropFirst(lines, a) ==
    IF Len(lines) <= a THEN <<>> ELSE SubSeq(lines, a + 1, Len(lines))

DropLast(lines, b) ==
    IF Len(lines) <= b THEN <<>> ELSE SubSeq(lines, 1, Len(lines) - b)

\* The while loop that winds the generator to the end of an INFO block: the
\* index of the first line from i on that starts with INFO and ends with
\* dashes, 0 when the generator runs out first.
BlockEnd(lines, i) ==
    LET ends == {j \in i..Len(lines) :
                    StartsWithInfo(lines[j]) /\ EndsWithDashes(lines[j])}
    IN IF ends = {} THEN 0 ELSE CHOOSE j \in ends : \A m \in ends : j <= m

\* is_crash_returncode of framework.test.base.
IsCrashReturncode(platform, rc) ==
    IF platform = "win32" THEN rc = 3 ELSE rc < 0

Returned(result, subtests) ==
    [ret |-> "returned", exc |-> "none", result |-> result,
     subtests |-> subtests]

Raised(exc, result, subtests) ==
    [ret |-> "raised", exc |-> exc, result |-> result, subtests |-> subtests]

\* The for loop of DEQPBaseTest.interpret_result over the generator, from
\* line i on; curline is `cur', which no iteration resets.
RECURSIVE SingleScan(_, _, _, _)
SingleScan(lines, i, curline, result) ==
    IF i > Len(lines)
    THEN Returned(result, <<>>)
    ELSE LET l == lines[i]
         IN IF StartsWithInfo(l)
            THEN IF StartsWithInfo(curline) /\ EndsWithDashes(curline)
                 THEN \* the while loop does not run; l = cur is an INFO line
                      SingleScan(lines, i + 1, curline, result)
                 ELSE LET j == BlockEnd(lines, i + 1)
                      IN IF j = 0
                         THEN Raised("StopIteration", result, <<>>)
                         ELSE SingleScan(lines, j + 1, lines[j], result)
            ELSE IF StartsWithSpaces(l)
            THEN IF l.code \in DOMAIN _RESULT_MAP
                 THEN SingleScan(lines, i + 1, curline, _RESULT_MAP[l.code])
                 ELSE Raised("KeyError", result, <<>>)
            ELSE SingleScan(lines, i + 1, curline, result)

\* `if self.result.result == 'notrun': self.result.result = 'fail''
NotrunIsFail(result) == IF result = "notrun" THEN "fail" ELSE result

\* DEQPBaseTest.interpret_result
InterpretSingle(platform, rc, out) ==
    IF IsCrashReturncode(platform, rc)
    THEN Returned("crash", <<>>)
    ELSE IF rc # 0
    THEN Returned("fail", <<>>)
    ELSE LET lines == DropLast(DropFirst(RStrip(out), BannerLines),
                               TotalsLines)
             r == SingleScan(lines, 1, NoLine, "notrun")
         IN IF r.ret = "raised"
            THEN r
            ELSE Returned(NotrunIsFail(r.result), <<>>)

\* DEQPGroupTest.__finder: `\d/(?P<total>\d+)' after the label takes one
\* digit before the slash.
FinderMatches(l) == l.k = "summary" /\ ~l.wide

\* The loop over reversed(lines): the total of the last line the finder
\* matches, -1 for None.
FindTotal(lines) ==
    LET hits == {j \in 1..Len(lines) : FinderMatches(lines[j])}
    IN IF hits = {} THEN -1
       ELSE lines[CHOOSE j \in hits : \A m \in hits : m <= j].total

\* l[name_slicer].rsplit('.', 1)[1].lower()
FinalSegment(s) ==
    LET dots == {i \in 1..Len(s) : s[i] = "."}
        d == CHOOSE i \in dots : \A m \in dots : m <= i
    IN SubSeq(s, d + 1, Len(s))

SubtestName(s) == Lower(FinalSegment(s))

\* The first line from i on that starts with `Test case', 0 for none.
NextCase(lines, i) ==
    LET cases == {j \in i..Len(lines) : StartsWithTestCase(lines[j])}
    IN IF cases = {} THEN 0 ELSE CHOOSE j \in cases : \A m \in cases : j <= m

TotalReachedMutant(subtests, total) == FALSE

\* `while len(self.result.subtests) < total' has come to its end.
TotalReached(subtests, total) == Len(subtests) >= total

\* The while loop of DEQPGroupTest.interpret_result: GroupScan is the first
\* for loop (to the next header), ResultScan the second (to its result).
RECURSIVE GroupScan(_, _, _, _)
RECURSIVE ResultScan(_, _, _, _, _)
GroupScan(lines, i, subtests, total) ==
    IF TotalReached(subtests, total)
    THEN Returned("notrun", subtests)
    ELSE LET h == NextCase(lines, i)
         IN IF h = 0
            THEN Raised("PiglitInternalError: Expected Test case", "notrun",
                        subtests)
            ELSE ResultScan(lines, h + 1, SubtestName(lines[h].name),
                            subtests, total)

ResultScan(lines, j, name, subtests, total) ==
    IF j > Len(lines)
    THEN Raised("PiglitInternalError: Expected result", "notrun", subtests)
    ELSE LET l == lines[j]
         IN IF StartsWithInfo(l)
            THEN LET e == BlockEnd(lines, j + 1)
                 IN IF e = 0
                    THEN Raised("StopIteration", "notrun", subtests)
                    ELSE ResultScan(lines, e + 1, name, subtests, total)
            ELSE IF StartsWithSpaces(l)
            THEN IF l.code \in DOMAIN _RESULT_MAP
                 THEN GroupScan(lines, j + 1,
                                OdSet(subtests, name, _RESULT_MAP[l.code]),
                                total)
                 ELSE Raised("PiglitInternalError: Unknown status", "notrun",
                             subtests)
            ELSE ResultScan(lines, j + 1, name, subtests, total)

\* The order of the statuses, framework.status.
StatusRank ==
    [s \in {"pass", "skip", "warn", "fail", "crash", "timeout", "notrun",
            "incomplete"} |->
        CASE s = "pass" -> 0
          [] s = "skip" -> 1
          [] s = "warn" -> 2
          [] s = "fail" -> 3
          [] s = "crash" -> 4
          [] s = "timeout" -> 5
          [] s = "notrun" -> 6
          [] s = "incomplete" -> 7]

\* TestResult.result read back: the status a test set itself, and for a
\* result left at notrun the worst of its subtests when it has any.
ResultOf(stored, subtests) ==
    IF stored # "notrun" \/ subtests = <<>>
    THEN stored
    ELSE LET vs == {subtests[i].value : i \in 1..Len(subtests)}
         IN CHOOSE v \in vs : \A w \in vs : StatusRank[w] <= StatusRank[v]

\* _RERUN, the default of the option group_rerun.
_RERUN == {"crash", "notrun", "incomplete", "timeout"}

NonzeroIsCrashMutant(rc) == FALSE

\* `if self.result.returncode != 0' of DEQPGroupTest.interpret_result.
NonzeroIsCrash(rc) == rc # 0

\* DEQPGroupTest.interpret_result. group_rerun is OPTIONS.deqp_group_rerun;
\* queued tells whether the cases of the group were added to `rerun'.
InterpretGroup(group_rerun, rc, out) ==
    LET lines == DropFirst(RStrip(out), BannerLines)
        total == FindTotal(lines)
        r == IF NonzeroIsCrash(rc)
             THEN Returned("crash", <<>>)
             ELSE IF total = -1
             THEN Raised("AssertionError", "notrun", <<>>)
             ELSE GroupScan(DropLast(lines, TotalsLines), 1, <<>>, total)
        seen == ResultOf(r.result, r.subtests)
    IN IF r.ret = "raised"
       THEN [ret |-> r.ret, exc |-> r.exc, result |-> r.result,
             subtests |-> r.subtests, queued |-> FALSE]
       ELSE IF group_rerun /\ seen \in _RERUN
       THEN [ret |-> r.ret, exc |-> r.exc, result |-> seen,
             subtests |-> r.subtests, queued |-> TRUE]
       ELSE [ret |-> r.ret, exc |-> r.exc, result |-> NotrunIsFail(seen),
             subtests |-> r.subtests, queued |-> FALSE]

\* What deqp may print between its banner and its totals.
BodyLines ==
    {CaseLine(n) : n \in CaseNames} \cup {InfoLine(d) : d \in BOOLEAN}
        \cup {IndentLine(c) : c \in {"P", "C", " "}} \cup {TextLine}

\* The bodies of at most n lines.
Bodies(n) == UNION {[1..m -> BodyLines] : m \in 0..n}

Banner == <<TextLine, TextLine, BlankLine>>

\* The run totals: a blank line, DONE!, a blank line, the heading and the four
\* counts.
Totals(t, w) ==
    <<BlankLine, TextLine, BlankLine, TextLine, SummaryLine("P", w, t),
      SummaryLine("F", w, t), SummaryLine("N", w, t), SummaryLine("W", w, t)>>

\* Eight lines at the end of a run that printed no totals.
NoTotals == [i \in 1..TotalsLines |-> TextLine]

Trailers ==
    {Totals(t, FALSE) : t \in 1..MaxTotal}
        \cup {Totals(MaxTotal, TRUE), NoTotals}

Platforms == {"linux", "win32"}

Returncodes == {0, 1, 3, -6}

\* The output of a run of the one case g.0 that ended with code c.
OneCase(c) ==
    Banner \o <<CaseLine(<<"g", ".", "0">>), IndentLine(c)>>
        \o Totals(1, FALSE)

\* Outputs met with any return code: of a process that ended before it
\* printed a case, of one case, and one that ends in an empty line.
SampleOutputs ==
    {<<>>, Banner, Banner \o Totals(1, FALSE), OneCase("P"), OneCase("C"),
     OneCase("P") \o <<BlankLine>>}

SingleCall(platform, rc, out) ==
    [op |-> "single", platform |-> platform, returncode |-> rc, out |-> out,
     outcome |-> InterpretSingle(platform, rc, out)]

\* test.interpret_result() of a DEQPBaseTest.
InterpretSingleCase ==
    /\ interp = [op |-> "none"]
    /\ attempt.st = "idle"
    /\ grouprun = [st |-> "idle"]
    /\ \/ \E b \in Bodies(MaxLines) :
            interp' = SingleCall("linux", 0, Banner \o b \o Totals(1, FALSE))
       \/ \E p \in Platforms, rc \in Returncodes, o \in SampleOutputs :
            interp' = SingleCall(p, rc, o)
    /\ UNCHANGED <<attempt, grouprun>>
    /\ UNCHANGED <<schedVars, dictVars>>

GroupCall(group_rerun, rc, out) ==
    [op |-> "group", group_rerun |-> group_rerun, returncode |-> rc,
     out |-> out, outcome |-> InterpretGroup(group_rerun, rc, out)]

\* test.interpret_result() of a DEQPGroupTest.
InterpretGroupCase ==
    /\ interp = [op |-> "none"]
    /\ attempt.st = "idle"
    /\ grouprun = [st |-> "idle"]
    /\ \/ \E b \in Bodies(MaxLines), t \in Trailers :
            interp' = GroupCall(TRUE, 0, Banner \o b \o t)
       \/ \E r \in BOOLEAN, rc \in Returncodes, o \in SampleOutputs :
            interp' = GroupCall(r, rc, o)
    /\ UNCHANGED <<attempt, grouprun>>
    /\ UNCHANGED <<schedVars, dictVars>>

\* DEQPVKGroupTest.interpret_result: failed names one of the two known
\* problems (glslang could not compile, deqp-vk hit an assertion); the cases
\* go to `rerun' and the result is left as it was made.
InterpretVKGroup(failed, group_rerun, rc, out) ==
    IF failed
    THEN [ret |-> "returned", exc |-> "none", result |-> "notrun",
          subtests |-> <<>>, queued |-> TRUE]
    ELSE InterpretGroup(group_rerun, rc, out)

\* The dEQP profiles of one run.
DeqpProfiles == {"cts", "deqp_vk"}

\* The multi_class a profile hands to DEQPProfile.
multi_class(p) ==
    IF p = "deqp_vk" THEN "DEQPVKGroupTest" ELSE "DEQPCTSGroupTest"

\* The class whose body makes the list that cls.rerun names: the subclasses
\* of DEQPGroupTest assign no rerun of their own.
RerunHolder(cls) == "DEQPGroupTest"

\* The leaf groups DEQPProfile.__init__ puts in the test lists, each with its
\* individual cases: the first group is of cts, the others of
\* deqp_vk.
GroupTests ==
    [g \in 1..MaxGroups |->
        [cases |-> [c \in 1..(IF g = 1 THEN 2 ELSE 1) |-> <<g, c>>],
         profile |-> IF g = 1 THEN "cts" ELSE "deqp_vk"]]

\* DEQPProfile.__init__: self._rerun = multi_class.rerun, a reference to
\* the list of the holder; lists is the state of the lists by holder.
_rerun(p, lists) == lists[RerunHolder(multi_class(p))]

\* What a group's process may give: it passes, a case crashes, the process
\* dies, or a known problem of deqp-vk shows.
GroupRuns ==
    [vk : {FALSE}, failed : {FALSE}, returncode : {0},
     out : {OneCase("P"), OneCase("C")}]
        \cup [vk : {FALSE}, failed : {FALSE}, returncode : {-6},
              out : {Banner}]
        \cup [vk : {TRUE}, failed : BOOLEAN, returncode : {0},
              out : {OneCase("P")}]

\* Collection.run is entered for dEQP profiles in group mode: the list
\* DEQPGroupTest.rerun is empty, nothing is written yet.
StartGroupRun ==
    /\ grouprun = [st |-> "idle"]
    /\ attempt.st = "idle"
    /\ interp = [op |-> "none"]
    /\ \E n \in 1..MaxGroups, r \in BOOLEAN :
        grouprun' = [st |-> "running",
                     group_rerun |-> r,
                     groups |-> [g \in 1..n |->
                                    [done |-> FALSE, queued |-> FALSE,
                                     result |-> "notrun", sink |-> "none"]],
                     rerun |-> [h \in {RerunHolder(multi_class(p)) :
                                            p \in DeqpProfiles} |-> <<>>],
                     single |-> <<>>]
    /\ UNCHANGED <<attempt, interp>>
    /\ UNCHANGED <<schedVars, dictVars>>

\* test((name, group)) of Collection.run for group g: test.execute, which
\* ends in interpret_result, then w(test.result).
ExecuteGroup(g) ==
    /\ grouprun.st = "running"
    /\ g \in DOMAIN grouprun.groups
    /\ ~grouprun.groups[g].done
    /\ \E in \in {i \in GroupRuns :
                    i.vk = (multi_class(GroupTests[g].profile)
                                = "DEQPVKGroupTest")} :
        LET o == IF in.vk
                 THEN InterpretVKGroup(in.failed, grouprun.group_rerun,
                                       in.returncode, in.out)
                 ELSE InterpretGroup(grouprun.group_rerun, in.returncode,
                                     in.out)
        IN grouprun' =
            [grouprun EXCEPT
                !.groups[g] = [done |-> TRUE, queued |-> o.queued,
                               result |-> o.result, sink |-> "result"],
                !.rerun[RerunHolder(multi_class(GroupTests[g].profile))] =
                    IF o.queued THEN @ \o GroupTests[g].cases ELSE @]
    /\ UNCHANGED <<attempt, interp>>
    /\ UNCHANGED <<schedVars, dictVars>>

\* Collection.run has run every group and returns; the run ends.
EndGroupRun ==
    /\ grouprun.st = "running"
    /\ \A g \in DOMAIN grouprun.groups : grouprun.groups[g].done
    /\ grouprun' = [grouprun EXCEPT !.st = "done"]
    /\ UNCHANGED <<attempt, interp>>
    /\ UNCHANGED <<schedVars, dictVars>>

InitDeqp ==
    /\ NewTestDict
    /\ SchedulerIdle
    /\ TestsIdle

NextDeqp ==
    \/ RunCommand
    \/ InterpretSingleCase
    \/ InterpretGroupCase
    \/ StartGroupRun
    \/ \E g \in 1..MaxGroups : ExecuteGroup(g)
    \/ EndGroupRun

SpecDeqp == InitDeqp /\ [][NextDeqp]_vars

\* ------------------------------------------- self-reporting tests
\* The standard output of a piglit test, split into lines: ordinary text, or
\* a marker line `PIGLIT: <json>' that carries the result or one subtest.
OutText(t) == [k |-> "text", text |-> t]

ResultMarker(s) == [k |-> "result", status |-> s]

SubtestMarker(n, s) == [k |-> "subtest", name |-> n, status |-> s]

IsMarkerMutant(l) == l.k = "result"

\* line.startswith('PIGLIT:')
IsMarker(l) == l.k \in {"result", "subtest", "enumerate"}

\* The lines a test may print.
ProtoLines ==
    {OutText(t) : t \in {"x", "y"}}
        \cup {ResultMarker(s) : s \in {"pass", "fail"}}
        \cup {SubtestMarker(<<"a">>, s) : s \in {"pass", "fail"}}
        \cup {SubtestMarker(<<"A">>, "pass"), SubtestMarker(<<"b">>, "fail")}

\* The outputs of at most n lines and at most one result marker.
ProtoOutputs(n) ==
    {o \in UNION {[1..m -> ProtoLines] : m \in 0..n} :
        Cardinality({i \in 1..Len(o) : o[i].k = "result"}) <= 1}

FoldSubtestMutant(subtests, n, s) == <<[key |-> Lower(n), value |-> s]>>

\* Result.subtests takes one marker: the name is folded, a name seen before
\* keeps its place and takes the new status.
FoldSubtest(subtests, n, s) == OdSet(subtests, Lower(n), s)

\* The pass over the lines from line i on: markers update the result, the
\* other lines are kept.
RECURSIVE ProtoScan(_, _, _)
ProtoScan(lines, i, r) ==
    IF i > Len(lines)
    THEN r
    ELSE LET l == lines[i]
         IN IF ~IsMarker(l)
            THEN ProtoScan(lines, i + 1, [r EXCEPT !.out = Append(@, l)])
            ELSE IF l.k = "result"
            THEN ProtoScan(lines, i + 1,
                           [r EXCEPT !.result = l.status, !.marked = TRUE])
            ELSE IF l.k = "subtest"
            THEN ProtoScan(lines, i + 1,
                           [r EXCEPT !.subtests =
                                FoldSubtest(@, l.name, l.status)])
            ELSE ProtoScan(lines, i + 1, r)

\* PiglitBaseTest.interpret_result: the markers decide; without a result
\* marker a process killed by a signal gives crash and another non-zero
\* return code gives fail.
InterpretPiglit(rc, out) ==
    LET r == ProtoScan(out, 1, [result |-> "notrun", marked |-> FALSE,
                                subtests |-> <<>>, out |-> <<>>])
        stored == IF r.marked THEN r.result
                  ELSE IF rc < 0 THEN "crash"
                  ELSE IF rc # 0 THEN "fail"
                  ELSE r.result
    IN [result |-> ResultOf(stored, r.subtests), subtests |-> r.subtests,
        out |-> r.out, returncode |-> rc]

\* test.interpret_result() of a PiglitBaseTest.
InterpretPiglitCase ==
    /\ interp = [op |-> "none"]
    /\ attempt.st = "idle"
    /\ grouprun = [st |-> "idle"]
    /\ \E rc \in {0, 1, -6}, out \in ProtoOutputs(MaxMarkers) :
        interp' = [op |-> "piglit", returncode |-> rc, out |-> out,
                   outcome |-> InterpretPiglit(rc, out)]
    /\ UNCHANGED <<attempt, grouprun>>
    /\ UNCHANGED <<schedVars, dictVars>>

\* ------------------------------------------- several shader tests at once
\* One process runs several files. Its stdout starts with a marker, the list
\* of the files it will run or the result skip; then both streams hold, per
\* file, a line `START: <file>' and what the file printed.
FileNames == {"A", "B"}

\* The files of one command line: no file twice.
FileLists ==
    {fs \in UNION {[1..n -> FileNames] : n \in 1..MaxFiles} :
        \A a, b \in 1..Len(fs) : fs[a] = fs[b] => a = b}

EnumerateMarker(fs) == [k |-> "enumerate", files |-> fs]

StartLine(f) == [k |-> "start", file |-> f]

\* The first line from i on that is a START line, 0 for none.
NextStart(stream, i) ==
    LET starts == {j \in i..Len(stream) : stream[j].k = "start"}
    IN IF starts = {} THEN 0 ELSE CHOOSE j \in starts : \A m \in starts : j <= m

\* The lines of the block that starts at line s: up to the next START line
\* or the end of the stream.
Block(stream, s) ==
    IF NextStart(stream, s + 1) = 0
    THEN SubSeq(stream, s + 1, Len(stream))
    ELSE SubSeq(stream, s + 1, NextStart(stream, s + 1) - 1)

BlockTextMutant(lines) == lines

\* What a file printed: the lines of its block that are no markers.
BlockText(lines) == SelectSeq(lines, LAMBDA l : ~IsMarker(l))

\* The status the markers of a block give, notrun for none.
BlockResult(lines) ==
    LET rs == SelectSeq(lines, LAMBDA l : l.k = "result")
    IN IF rs = <<>> THEN "notrun" ELSE rs[Len(rs)].status

_stop_status_mutant(out, rc) == "crash"

\* MultiShaderTest._stop_status: the status of the file at which the process
\* stopped.
_stop_status(out, rc) ==
    IF out # <<>> /\ out[Len(out)] = ResultMarker("skip") THEN "skip"
    ELSE IF rc > 0 THEN "fail"
    ELSE "crash"

\* The results of the files that were started, once the streams are read.
\* The last file, when it reported no result, is the one the process stopped
\* at: it takes the stop status and the return code of the process.  After
\* a signal or an early end the files before it are not charged with the
\* return code of the process.
Settle(rc, out, acc, interrupted) ==
    [i \in 1..Len(acc) |->
        IF i = Len(acc) /\ acc[i].result = "notrun"
        THEN [acc[i] EXCEPT !.result = _stop_status(out, rc), !.returncode = rc]
        ELSE [acc[i] EXCEPT
                !.returncode = IF interrupted \/ rc < 0 THEN 0 ELSE rc]]

\* The loop over the expected files fs from file k on; op and ep are the
\* cursors on stdout and stderr, acc the results so far.
RECURSIVE ShaderScan(_, _, _, _, _, _, _, _)
ShaderScan(fs, k, rc, out, op, err, ep, acc) ==
    IF k > Len(fs)
    THEN [ret |-> "returned", finished |-> Settle(rc, out, acc, FALSE),
          todo |-> <<>>]
    ELSE LET so == NextStart(out, op)
             se == NextStart(err, ep)
         IN IF so = 0 \/ se = 0
            THEN [ret |-> "interrupted",
                  finished |-> Settle(rc, out, acc, TRUE),
                  todo |-> SubSeq(fs, k, Len(fs))]
            ELSE IF out[so].file # err[se].file
            THEN [ret |-> "raised", finished |-> acc, todo |-> <<>>]
            ELSE ShaderScan(fs, k + 1, rc, out,
                            so + 1 + Len(Block(out, so)), err,
                            se + 1 + Len(Block(err, se)),
                            Append(acc,
                                   [file |-> out[so].file,
                                    result |-> BlockResult(Block(out, so)),
                                    out |-> BlockText(Block(out, so)),
                                    err |-> BlockText(Block(err, se)),
                                    returncode |-> rc]))

SkipFirstMutant(files, rc, out, err) ==
    [ret |-> "interrupted",
     finished |-> <<[file |-> files[1], result |-> "skip",
                     out |-> out, err |-> err, returncode |-> rc]>>,
     todo |-> files]

\* No context could be made and nothing was enumerated: the first file of
\* the command is skipped and the others are still to do.
SkipFirst(files, rc, out, err) ==
    [ret |-> "interrupted",
     finished |-> <<[file |-> files[1], result |-> "skip",
                     out |-> out, err |-> err, returncode |-> rc]>>,
     todo |-> Tail(files)]

\* MultiShaderTest.interpret_result for the command `shader_runner files'.
InterpretShader(files, rc, out, err) ==
    LET ms == SelectSeq(out, IsMarker)
    IN IF ms = <<>>
       THEN [ret |-> "interrupted", finished |-> <<>>, todo |-> files]
       ELSE IF ms[1].k = "result" /\ ms[1].status = "skip"
       THEN SkipFirst(files, rc, out, err)
       ELSE IF ms[1].k = "enumerate"
       THEN ShaderScan(ms[1].files, 1, rc, out, 1, err, 1, <<>>)
       ELSE [ret |-> "raised", finished |-> <<>>, todo |-> <<>>]

\* What shader_runner may print after its first marker, and on stderr.
ShaderOutLines ==
    {StartLine(f) : f \in FileNames} \cup {OutText("x"), ResultMarker("pass")}

ShaderErrLines == {StartLine(f) : f \in FileNames} \cup {OutText("e")}

\* The process ends well, with an error or under a signal.
ShaderReturncodes == {0, 1, -5}

\* The streams of at most n lines over the given lines.
Streams(lines, n) == UNION {[1..m -> lines] : m \in 0..n}

\* ------------------------------------- the run of a MultiShaderTest
\* The files of the longest command line of a run, in the order given.
RunFiles == <<"B", "A", "C", "D">>

MaxRunFiles == MaxFiles + 1

\* The processes one run is followed through.
MaxAttempts == MaxRunFiles + 1

RunLists == {SubSeq(RunFiles, 1, n) : n \in 1..MaxRunFiles}

Prog == "shader_runner"

Flags == <<"-auto", "-report-subtests">>

\* MultiShaderTest.command: -auto and -report-subtests after the files.
Command(_command) == _command \o Flags

_resume_mutant(command, current) ==
    <<command[1]>> \o SubSeq(command, current + 1, Len(command))

\* MultiShaderTest._resume: the program and what follows the first
\* `current' files of the command.
_resume(command, current) ==
    <<command[1]>> \o SubSeq(command, current + 2, Len(command))

\* The files of a command line.
FilesOf(argv) ==
    SelectSeq(Tail(argv), LAMBDA a : \A i \in 1..Len(Flags) : a # Flags[i])

\* What shader_runner prints for the files gs when it starts k of them: the
\* files before the k-th report pass, the k-th reports r or, for "none",
\* nothing.
RECURSIVE RunnerOut(_, _, _)
RunnerOut(gs, k, r) ==
    IF k = 0 THEN <<EnumerateMarker(gs)>>
    ELSE RunnerOut(gs, k - 1, "pass") \o <<StartLine(gs[k]), OutText("x")>>
            \o (IF r = "none" THEN <<>> ELSE <<ResultMarker(r)>>)

RunnerErr(gs, k) == [i \in 1..k |-> StartLine(gs[i])]

\* The streams of one process given the files gs: it cannot make a context
\* and reports skip, or it dies before it prints anything, or it starts k
\* of its files.
RunnerStreams(gs) ==
    {[out |-> <<ResultMarker("skip")>>, err |-> <<OutText("e")>>],
     [out |-> <<>>, err |-> <<>>]}
        \cup {[out |-> RunnerOut(gs, k, r), err |-> RunnerErr(gs, k)] :
                k \in 0..Len(gs), r \in {"pass", "skip", "none"}}

ShaderCall(files, rc, out, err) ==
    [op |-> "shader", files |-> files, returncode |-> rc,
     out |-> out, err |-> err,
     outcome |-> InterpretShader(files, rc, out, err)]

\* test.interpret_result(result) of a MultiShaderTest.
InterpretShaderCase ==
    /\ interp = [op |-> "none"]
    /\ attempt.st = "idle"
    /\ grouprun = [st |-> "idle"]
    /\ \/ \E fs \in FileLists :
            \E rc \in ShaderReturncodes,
               first \in {EnumerateMarker(fs), ResultMarker("skip")},
               o \in Streams(ShaderOutLines, MaxOut),
               e \in Streams(ShaderErrLines, MaxErr) :
                interp' = ShaderCall(fs, rc, <<first>> \o o, e)
       \/ \E fs \in RunLists :
            \E rc \in ShaderReturncodes, s \in RunnerStreams(fs) :
                interp' = ShaderCall(fs, rc, s.out, s.err)
    /\ UNCHANGED <<attempt, grouprun>>
    /\ UNCHANGED <<schedVars, dictVars>>

NoProgressMutant(outcome) == FALSE

\* An attempt that finished none of its files.
NoProgress(outcome) == outcome.finished = <<>>

\* The test is built and its first process is about to start.
StartMultiRun ==
    /\ interp = [op |-> "none"]
    /\ attempt.st = "idle"
    /\ grouprun = [st |-> "idle"]
    /\ \E fs \in RunLists :
        interp' = [op |-> "multi", st |-> "running",
                   _command |-> <<Prog>> \o fs, current |-> 0,
                   finished |-> <<>>, argvs |-> <<>>, calls |-> <<>>]
    /\ UNCHANGED <<attempt, grouprun>>
    /\ UNCHANGED <<schedVars, dictVars>>

\* One process of the run: it is given the files still to do, its streams
\* are interpreted, the results are put after the ones of the earlier
\* processes, and the run goes on with the files left unless there are none
\* or the process finished none.
MultiAttempt ==
    /\ interp.op = "multi"
    /\ interp.st = "running"
    /\ Len(interp.argvs) < MaxAttempts
    /\ LET argv == _resume(Command(interp._command), interp.current)
       IN \E rc \in ShaderReturncodes, s \in RunnerStreams(FilesOf(argv)) :
            LET call == ShaderCall(FilesOf(argv), rc, s.out, s.err)
                o == call.outcome
            IN interp' =
                [interp EXCEPT
                    !.argvs = Append(@, argv),
                    !.calls = Append(@, call),
                    !.finished = @ \o o.finished,
                    !.current = @ + Len(o.finished),
                    !.st = IF o.ret = "raised" THEN "failed"
                           ELSE IF o.todo = <<>> THEN "done"
                           ELSE IF NoProgress(o) THEN "failed"
                           ELSE "running"]
    /\ UNCHANGED <<attempt, grouprun>>
    /\ UNCHANGED <<schedVars, dictVars>>

InitProtocol ==
    /\ NewTestDict
    /\ SchedulerIdle
    /\ TestsIdle

NextProtocol ==
    \/ InterpretPiglitCase
    \/ InterpretShaderCase

SpecProtocol == InitProtocol /\ [][NextProtocol]_vars

NextMulti ==
    \/ StartMultiRun
    \/ MultiAttempt

\* The run of one MultiShaderTest, every attempt a call of shader_runner.
SpecMulti == InitProtocol /\ [][NextMulti]_vars

\* A started subprocess ends and its output is interpreted.
SpecMultiFair == SpecMulti /\ WF_vars(MultiAttempt)

\* ------------------------------------------------------------------ claims

Profiles == 1..Len(tests)

TestsOf(p) == 1..Len(tests[p])

Written(t) == t.sink \in {"pass", "fail"}

\* The pool the concurrency option of a profile assigns a test to.
PoolOf(concurrency, run_concurrent) ==
    CASE concurrency = "all" -> "multi"
      [] concurrency = "none" -> "single"
      [] OTHER -> IF run_concurrent THEN "multi" ELSE "single"

\* C1: no test is handed to a pool more than once, a test that was handed to
\* a pool went to the pool its profile's concurrency option and its
\* run_concurrent flag assign it to, and once the dispatch of a profile has
\* completed every surviving test of the profile has been handed over.
C1_DispatchPartition ==
    \A p \in Profiles : \A i \in TestsOf(p) :
        LET t == tests[p][i]
        IN  /\ t.ndispatch <= 1
            /\ t.ndispatch = 1 =>
                 t.pool = PoolOf(profiles[p].concurrency,
                                 profiles[p].test_list[i])
            /\ t.ndispatch = 0 => t.pool = "none"
            /\ cur > p => t.ndispatch = 1

\* C1 witness: a `some' profile with a concurrent and a serial test has been
\* dispatched; and one whose tests are all concurrent, none in `single'.
C1_Witness ==
    \E p \in Profiles :
        /\ cur > p
        /\ profiles[p].concurrency = "some"
        /\ \E i, j \in TestsOf(p) :
            /\ profiles[p].test_list[i] /\ tests[p][i].pool = "multi"
            /\ ~profiles[p].test_list[j] /\ tests[p][j].pool = "single"

Terminated == pc \in {"done", "raised"}

\* C2: the pools stay usable for every profile: a run in which no test fails
\* its way out ends with every surviving test executed and written, and the
\* summary requested after all profiles were dispatched.
C2_PoolsStayUsable ==
    /\ (Terminated /\ faults = 0 /\ error.kind # "PiglitFatalError") =>
          /\ backend.summary
          /\ \A p \in Profiles : \A i \in TestsOf(p) :
                tests[p][i].phase = "done" /\ Written(tests[p][i])
    /\ backend.summary => cur > Len(profiles)

\* C3: under `some', a serial-tier test of a profile has started only if
\* every concurrent-tier test of the same profile has completed.
C3_ConcurrentTierFirst ==
    \A p \in Profiles :
        profiles[p].concurrency = "some" =>
            \A i, j \in TestsOf(p) :
                (/\ ~profiles[p].test_list[i]
                 /\ tests[p][i].phase # "queued"
                 /\ profiles[p].test_list[j])
                => tests[p][j].phase = "done"

\* C3 witness: a serial-tier test executes in a `some' profile that also has
\* a concurrent-tier test.
C3_Witness ==
    \E p \in Profiles :
        /\ profiles[p].concurrency = "some"
        /\ \E i, j \in TestsOf(p) :
            /\ ~profiles[p].test_list[i]
            /\ tests[p][i].phase = "executing"
            /\ profiles[p].test_list[j]

\* A monitor-rule-broken signal has been raised in the pool of the job.
Signalled ==
    /\ job.pool # "none"
    /\ \E i \in TestsOf(job.profile) :
        tests[job.profile][i].outcome = "monitor"

\* C4: once a monitor-rule-broken signal has been raised in a pool, no test
\* of that pool that had not started begins execution.
C4_NoStartAfterSignal ==
    [][Signalled =>
        \A i \in TestsOf(job.profile) :
            (tests[job.profile][i].ndispatch = 1
             /\ tests[job.profile][i].pool = job.pool
             /\ tests[job.profile][i].phase = "queued")
            => tests'[job.profile][i].phase = "queued"]_vars

\* C5: a monitor-rule-broken signal reaches the caller as PiglitAbort with
\* the rule's message, raised only after the pool that ran the test has been
\* torn down.
C5_AbortAfterTeardown ==
    error.kind = "PiglitAbort" =>
        /\ error.msg = "rule broken"
        /\ pools[error.pool] \in {"CLOSE", "TERMINATE"}

\* C6 as stated: a test whose execution raised the monitor-rule violation has
\* no result written to the sink.
C6_NoResultOnViolation ==
    \A p \in Profiles : \A i \in TestsOf(p) :
        tests[p][i].raised = "MonitorRuleBroken" => ~Written(tests[p][i])

\* C6 amended: a test whose execution raised the monitor-rule violation
\* never ends normally; when the violation leaves test() the result of the
\* test has been written to the sink and the handle released.
C6_ResultThenViolation ==
    \A p \in Profiles : \A i \in TestsOf(p) :
        LET t == tests[p][i]
        IN  /\ t.outcome = "monitor" => t.phase # "done"
            /\ t.raised = "MonitorRuleBroken" =>
                 /\ t.outcome = "monitor"
                 /\ t.sink = ExecuteResult(t.outcome)
                 /\ t.handle = "released"

\* C6 witness: a monitor-rule violation has left test().
C6_Witness ==
    \E p \in Profiles : \E i \in TestsOf(p) :
        tests[p][i].raised = "MonitorRuleBroken" /\ tests[p][i].phase = "raised"

\* C7: an exception of a worker other than monitor-rule-broken reaches the
\* caller only after the pool that owns the worker has been torn down.
C7_RaiseAfterTeardown ==
    error.kind = "Exception" =>
        /\ pools[error.pool] \in {"CLOSE", "TERMINATE"}
        /\ \A k \in 1..Len(chunks) : chunks[k].st \in {"ok", "failed"}

\* C8: a test executes only with its write handle open, the handle is
\* released on every way out of test(), and a result is in the sink only
\* when the execution has ended.
C8_ScopedHandle ==
    \A p \in Profiles : \A i \in TestsOf(p) :
        LET t == tests[p][i]
        IN  /\ t.phase = "queued" => t.handle = "closed" /\ t.sink = "absent"
            /\ t.phase \in {"opened", "executing", "executed"} =>
                 t.handle = "open" /\ t.sink = "incomplete"
            /\ t.phase \in {"done", "raised"} => t.handle = "released"
            /\ Written(t) =>
                 t.phase \in {"done", "raised"} /\ t.outcome # "none"

\* C8 witness: one test left test() normally, another by an exception.
C8_Witness ==
    \E p \in Profiles : \E i, j \in TestsOf(p) :
        /\ tests[p][i].phase = "done" /\ Written(tests[p][i])
        /\ tests[p][j].phase = "raised" /\ tests[p][j].handle = "released"

\* The handles, results and pools of a run that has not got anywhere.
NothingRun ==
    /\ pools = [single |-> "absent", multi |-> "absent"]
    /\ job = NoJob
    /\ \A p \in Profiles : \A i \in TestsOf(p) : tests[p][i] = NewTest
    /\ ~backend.summary
    /\ ~backend.finalized

C10_ParseErrorIsolated ==
    \A p \in Profiles : \A i \in TestsOf(p) :
        LET t == tests[p][i]
        IN  /\ (t.outcome = "parse_error" /\ t.phase \in {"done", "raised"}) =>
                 \/ t.phase = "done" /\ t.sink = "fail" /\ t.raised = "none"
                 \/ t.sink = "incomplete" /\ t.raised = "Exception"
            /\ cur > p => t.phase = "done" /\ Written(t)

\* C10 witness: a run has ended normally in which a test with a parse error
\* was followed by another test of its profile.
C10_Witness ==
    /\ pc = "done"
    /\ \E p \in Profiles : \E i, j \in TestsOf(p) :
        /\ i < j
        /\ tests[p][i].outcome = "parse_error"
        /\ tests[p][i].sink = "fail"
        /\ tests[p][j].sink = "pass"

\* A test a worker is inside test() of.
InFlight(t) == t.phase \in {"opened", "executing", "executed"}

\* A queued test of the running job whose chunk has failed: it never starts.
Abandoned(p, i) ==
    /\ tests[p][i].phase = "queued"
    /\ job.profile = p
    /\ \E k \in 1..Len(chunks) :
        chunks[k].st = "failed" /\ i \in Range(job.chunks[k])

\* C20: at most one test of the serial pool is inside test() at any time,
\* and once a test of the serial pool has started, every test of its profile
\* submitted to that pool before it has completed (or was given up with its
\* chunk): the tests complete in the order of the test list.
C20_SerialInOrder ==
    /\ Cardinality({pi \in {<<p, i>> : p \in Profiles, i \in 1..MaxTests} :
                        /\ pi[2] \in TestsOf(pi[1])
                        /\ tests[pi[1]][pi[2]].pool = "single"
                        /\ InFlight(tests[pi[1]][pi[2]])}) <= 1
    /\ \A p \in Profiles : \A i, j \in TestsOf(p) :
        (/\ i < j
         /\ tests[p][i].pool = "single"
         /\ tests[p][j].pool = "single"
         /\ tests[p][j].phase # "queued")
            => tests[p][i].phase \in {"done", "raised"} \/ Abandoned(p, i)

C20_Witness ==
    \E p \in Profiles :
        /\ Len(tests[p]) = MaxTests
        /\ tests[p][MaxTests].pool = "single"
        /\ tests[p][MaxTests].phase = "executing"
        /\ \A i \in 1..(MaxTests - 1) : tests[p][i].phase = "done"

\* ------------------------------------------------ claims on the test list

C12_CaseFoldedLookup ==
    /\ \A i \in 1..Len(container) :
        \A s \in {container[i].key, Upper(container[i].key),
                  Lower(container[i].key)} :
            /\ DictGet(container, s) =
                    [err |-> "none", value |-> container[i].value]
            /\ DictContains(container, s)
    /\ \A i, j \in 1..Len(container) :
        Lower(container[i].key) = Lower(container[j].key) => i = j
    /\ last.op = "set" /\ last.err = "none" =>
        \A s \in {last.key.s, Upper(last.key.s), Lower(last.key.s)} :
            DictGet(container, s) = [err |-> "none", value |-> last.value.v]
    /\ last.op = "get" =>
        IF \E e \in Range(last.before) : e.key = Lower(last.key)
        THEN /\ last.err = "none"
             /\ [key |-> Lower(last.key), value |-> last.ret]
                    \in Range(last.before)
        ELSE last.err = "KeyError"
    /\ last.op = "contains" =>
        (last.ret <=> \E e \in Range(last.before) : e.key = Lower(last.key))
    /\ last.op = "del" =>
        IF \E e \in Range(last.before) : e.key = Lower(last.key)
        THEN /\ last.err = "none"
             /\ LET Other(e) == e.key # Lower(last.key)
                IN container = SelectSeq(last.before, Other)
        ELSE last.err = "KeyError" /\ container = last.before

C12_Witness ==
    /\ last.op = "get"
    /\ last.key = <<"C", "/", "1">>
    /\ last.err = "none"
    /\ Len(container) = 2
    /\ last.ret = "t2"

\* A set with a text key and a Test value on a key that is already present.
DuplicateSet ==
    /\ last.op = "set"
    /\ last.key.text
    /\ last.value.test
    /\ \E e \in Range(last.before) : e.key = Lower(last.key.s)

\* C13: a set of a present key to a different test fails exactly when no
\* allow_reassignment scope is open, whatever the nesting depth was, and
\* overwrites the stored test otherwise.
C13_ErrorIffNoScopeOpen ==
    (DuplicateSet /\ [key |-> Lower(last.key.s), value |-> last.value.v]
                        \notin Range(last.before)) =>
        IF last.scopes = 0
        THEN last.err # "none" /\ container = last.before
        ELSE /\ last.err = "none"
             /\ [key |-> Lower(last.key.s), value |-> last.value.v]
                    \in Range(container)

\* C14: the counter is the number of scopes now open: every exit of a scope,
\* by the end of its body or by an error in it, undoes the scope's increment.
C14_CounterFollowsScopes == allow_reassignment = scopes

\* C15: outside any allow_reassignment scope a set of a present key fails,
\* for a different and for an identical test, and the collection is what it
\* was before the call.
C15_DuplicateSetFails ==
    (DuplicateSet /\ last.scopes = 0) =>
        /\ last.err \in {"already assigned, not the same",
                         "already assigned, the same"}
        /\ container = last.before

\* C16: filter leaves exactly the items its callable accepts, in the order
\* they had.
C16_FilterKeepsAccepted ==
    last.op = "filter" =>
        LET Accepted(e) == e \in last.pred
        IN container = SelectSeq(last.before, Accepted)

C16_Witness ==
    /\ last.op = "filter"
    /\ Len(last.before) = 3
    /\ container = <<last.before[1], last.before[3]>>

\* The place a name first takes in a list of names.
FirstPos(order, k) == CHOOSE n \in 1..Len(order) :
    order[n] = k /\ \A m \in 1..(n - 1) : order[m] # k

\* The items of c stand in the order in which the list first names them.
FollowsOrder(c, order) ==
    /\ \A i \in 1..Len(c) : c[i].key \in Range(order)
    /\ \A i, j \in 1..Len(c) :
        i < j => FirstPos(order, c[i].key) < FirstPos(order, c[j].key)

\* C17: reorder with a name that is not stored and allow_missing false fails,
\* names a missing test and leaves the collection as it was; otherwise it
\* succeeds, skips the names that are not stored, and the items stand in the
\* order of the list, every stored test the list names among them.
C17_ReorderFollowsList ==
    last.op = "reorder" =>
        LET stored(k) == \E e \in Range(last.before) : e.key = k
        IN IF ~last.allow_missing
              /\ \E k \in Range(last.order) : ~stored(k)
           THEN /\ last.err = "Cannot reorder test"
                /\ last.name \in Range(last.order)
                /\ ~stored(last.name)
                /\ container = last.before
           ELSE /\ last.err = "none"
                /\ FollowsOrder(container, last.order)
                /\ Range(container) \subseteq Range(last.before)
                /\ \A e \in Range(last.before) :
                    e.key \in Range(last.order) => e \in Range(container)

C17_Witness ==
    /\ last.op = "reorder"
    /\ last.allow_missing
    /\ Len(last.before) = 3
    /\ last.order = <<<<"A">>, last.before[3].key>>
    /\ container = <<last.before[3]>>

\* What the filters of a profile say of an item: every filter of the profile
\* accepts it, its path matches an include regex if there is any, its path is
\* not in the exclude set and matches no exclude regex.
PassesFilters(cfg, e) ==
    /\ \A n \in 1..Len(cfg.filters) : e \in cfg.filters[n]
    /\ cfg.include_filter # <<>> =>
        \E n \in 1..Len(cfg.include_filter) : e.key \in cfg.include_filter[n]
    /\ e.key \notin cfg.exclude_tests
    /\ \A n \in 1..Len(cfg.exclude_filter) : e.key \notin cfg.exclude_filter[n]

\* C18: with a forced list that is not empty, the tests left by Profile.filter
\* are exactly the stored tests the list names that pass every filter, and
\* they stand in the order of the list.
C18_ForcedSubsetThenFilters ==
    (last.op = "profile_filter" /\ last.forced # <<>>) =>
        /\ \A e \in Range(last.before) :
            e \in Range(container) <=>
                e.key \in Range(last.forced) /\ PassesFilters(last.cfg, e)
        /\ Range(container) \subseteq Range(last.before)
        /\ FollowsOrder(container, last.forced)

C18_Witness ==
    /\ last.op = "profile_filter"
    /\ Len(last.forced) = 2
    /\ last.cfg.filters # <<>>
    /\ Len(last.before) = 3
    /\ last.forced = <<last.before[3].key, last.before[1].key>>
    /\ container = <<last.before[3], last.before[1]>>

\* C19 as stated: of the stored tests, Profile.filter leaves exactly those
\* that pass the filters.
C19_SurvivesIffFiltersAccept ==
    last.op = "profile_filter" =>
        \A e \in Range(last.before) :
            e \in Range(container) <=> PassesFilters(last.cfg, e)

\* C19: of the stored tests, Profile.filter leaves exactly those that pass
\* the filters and that the forced list names when that list is not empty;
\* it adds none.
C19_SurvivesIffAcceptedAndForced ==
    last.op = "profile_filter" =>
        /\ \A e \in Range(last.before) :
            e \in Range(container) <=>
                /\ PassesFilters(last.cfg, e)
                /\ last.forced # <<>> => e.key \in Range(last.forced)
        /\ Range(container) \subseteq Range(last.before)

C19_Witness ==
    /\ last.op = "profile_filter"
    /\ last.forced = <<>>
    /\ last.cfg.filters = <<>>
    /\ Len(last.cfg.include_filter) = 2
    /\ last.cfg.exclude_filter = <<>>
    /\ last.cfg.exclude_tests # {}
    /\ Len(last.before) = 3
    /\ Len(container) = 2

\* ------------------------------------------------- claims on dEQP tests

\* C21: the command of a dEQP test is run at most 5 times, again only after
\* a run whose stderr holds the display failure; the loop returns after the
\* first run whose stderr lacks it, and when all 5 runs show it the test ends
\* with a TestRunError of status fail that says so.
C21_AtMostFiveRuns ==
    /\ attempt.n = Len(attempt.err)
    /\ attempt.n <= 5
    /\ \A i \in 1..(attempt.n - 1) : attempt.err[i]
    /\ attempt.st = "returned" <=> (attempt.n >= 1 /\ ~attempt.err[attempt.n])
    /\ attempt.st = "raised" <=> (attempt.n = 5 /\ attempt.err[5])
    /\ attempt.st = "raised" =>
        /\ attempt.exc.kind = "TestRunError"
        /\ attempt.exc.status = "fail"
        /\ attempt.exc.msg = "Failed to connect to X server 5 times"

C21_Witness == attempt.st = "raised" /\ attempt.n = 5

\* The lines of an output between its banner and its totals.
BodyOf(out) == DropLast(DropFirst(RStrip(out), 3), 8)

\* The lines that lie in no INFO...---- block, from line i on; a block runs
\* from a line that starts with INFO to the next one that also ends with
\* dashes.
RECURSIVE OutsideBlocks(_, _)
OutsideBlocks(lines, i) ==
    IF i > Len(lines)
    THEN <<>>
    ELSE IF lines[i].k = "info"
    THEN IF BlockEnd(lines, i + 1) = 0
         THEN <<>>
         ELSE OutsideBlocks(lines, BlockEnd(lines, i + 1) + 1)
    ELSE <<lines[i]>> \o OutsideBlocks(lines, i + 1)

\* Every INFO block of the lines is closed.
RECURSIVE BlocksClosed(_, _)
BlocksClosed(lines, i) ==
    IF i > Len(lines)
    THEN TRUE
    ELSE IF lines[i].k = "info"
    THEN /\ BlockEnd(lines, i + 1) # 0
         /\ BlocksClosed(lines, BlockEnd(lines, i + 1) + 1)
    ELSE BlocksClosed(lines, i + 1)

\* The result lines of a single case: the indented lines outside the blocks.
ResultLines(lines) ==
    SelectSeq(OutsideBlocks(lines, 1), LAMBDA l : l.k \in {"indent", "summary"})

\* C22: a crash return code gives crash whatever the output, another non-zero
\* return code gives fail, return code 0 gives the code table's value of the
\* result line, fail when there is none; the status is never notrun after
\* the interpretation.
C22_SingleCaseStatus ==
    interp.op = "single" =>
        LET o == interp.outcome
            body == BodyOf(interp.out)
            rs == ResultLines(body)
        IN /\ o.ret = "returned" => o.result # "notrun"
           /\ IsCrashReturncode(interp.platform, interp.returncode) =>
                o = Returned("crash", <<>>)
           /\ (~IsCrashReturncode(interp.platform, interp.returncode)
                    /\ interp.returncode # 0) => o = Returned("fail", <<>>)
           /\ (interp.returncode = 0 /\ BlocksClosed(body, 1) /\ rs = <<>>)
                => o = Returned("fail", <<>>)
           /\ (interp.returncode = 0 /\ BlocksClosed(body, 1) /\ Len(rs) = 1
                    /\ rs[1].code \in DOMAIN _RESULT_MAP)
                => o = Returned(_RESULT_MAP[rs[1].code], <<>>)

\* What a group's output says, read unit by unit from line i on: a header,
\* then ordinary lines and closed INFO blocks, then an indented line with a
\* code of the table. ok is false when the lines are not of that form.
RECURSIVE ExpectedPairs(_, _)
RECURSIVE ExpectedResult(_, _, _)
ExpectedPairs(lines, i) ==
    IF i > Len(lines)
    THEN [ok |-> TRUE, pairs |-> <<>>]
    ELSE IF lines[i].k \in {"text", "blank"}
    THEN ExpectedPairs(lines, i + 1)
    ELSE IF lines[i].k = "case"
    THEN ExpectedResult(lines, i + 1, lines[i].name)
    ELSE [ok |-> FALSE, pairs |-> <<>>]

ExpectedResult(lines, j, name) ==
    IF j > Len(lines)
    THEN [ok |-> FALSE, pairs |-> <<>>]
    ELSE IF lines[j].k \in {"text", "blank"}
    THEN ExpectedResult(lines, j + 1, name)
    ELSE IF lines[j].k = "info" /\ BlockEnd(lines, j + 1) # 0
    THEN ExpectedResult(lines, BlockEnd(lines, j + 1) + 1, name)
    ELSE IF lines[j].k = "indent" /\ lines[j].code \in DOMAIN _RESULT_MAP
    THEN LET rest == ExpectedPairs(lines, j + 1)
         IN [ok |-> rest.ok,
             pairs |-> <<[key |-> Lower(FinalSegment(name)),
                          value |-> _RESULT_MAP[lines[j].code]]>>
                       \o rest.pairs]
    ELSE [ok |-> FALSE, pairs |-> <<>>]

\* The total the run totals of an output declare, 0 when they declare none
\* or do not agree.
DeclaredTotal(out) ==
    LET ts == {out[i].total : i \in {j \in 1..Len(out) : out[j].k = "summary"}}
    IN IF Cardinality(ts) = 1 THEN CHOOSE t \in ts : TRUE ELSE 0

\* An output of N headers with distinct names, each followed by its result
\* line, whose totals declare N.
WellFormedGroup(out) ==
    LET e == ExpectedPairs(BodyOf(out), 1)
    IN /\ e.ok
       /\ e.pairs # <<>>
       /\ \A a, b \in 1..Len(e.pairs) :
            e.pairs[a].key = e.pairs[b].key => a = b
       /\ DeclaredTotal(out) = Len(e.pairs)

\* C23: in group mode with return code 0, an output of N headers, each
\* followed by its result line, and totals that declare N gives exactly N
\* subtests, keyed by the case-folded last segment of the name, valued by the
\* code table, in the order met; a line inside an INFO block between a header
\* and its result line is not taken for the result line.
C23_GroupSubtests ==
    (interp.op = "group" /\ interp.returncode = 0
        /\ WellFormedGroup(interp.out)) =>
        /\ interp.outcome.ret = "returned"
        /\ interp.outcome.subtests = ExpectedPairs(BodyOf(interp.out), 1).pairs

\* The same for outputs whose totals the finder can read.
C23_NarrowTotals ==
    (interp.op = "group" /\ interp.returncode = 0
        /\ WellFormedGroup(interp.out)
        /\ \E i \in 1..Len(interp.out) :
            interp.out[i].k = "summary" /\ ~interp.out[i].wide) =>
        /\ interp.outcome.ret = "returned"
        /\ interp.outcome.subtests = ExpectedPairs(BodyOf(interp.out), 1).pairs

\* The folded names of the headers of an output.
HeaderNames(out) ==
    {Lower(FinalSegment(BodyOf(out)[i].name)) :
        i \in {j \in 1..Len(BodyOf(out)) : BodyOf(out)[j].k = "case"}}

\* C24: the interpretation of a group's output ends: it returns when the
\* subtests parsed are as many as the total declared, and when the output
\* runs out before that (fewer pairs, a header without result, repeated
\* names) it ends with an error instead of returning.
C24_GroupScanEnds ==
    (interp.op = "group" /\ interp.returncode = 0) =>
        LET total == FindTotal(DropFirst(RStrip(interp.out), 3))
            o == interp.outcome
        IN /\ o.ret \in {"returned", "raised"}
           /\ o.ret = "returned" => (total # -1 /\ Len(o.subtests) = total)
           /\ o.ret = "raised" => (total = -1 \/ Len(o.subtests) < total)
           /\ o.ret = "raised" => o.exc # "none"
           /\ (total # -1 /\ Cardinality(HeaderNames(interp.out)) < total) =>
                o.ret = "raised"

C24_Witness ==
    /\ interp.op = "group"
    /\ interp.returncode = 0
    /\ Len(BodyOf(interp.out)) = 4
    /\ Cardinality(HeaderNames(interp.out)) = 1
    /\ interp.outcome.ret = "raised"
    /\ interp.outcome.exc = "PiglitInternalError: Expected Test case"
    /\ Len(interp.outcome.subtests) = 1

\* C25: in group mode a non-zero return code gives the status crash without
\* a scan of the output: no subtest is recorded.
C25_NonzeroIsCrash ==
    (interp.op = "group" /\ interp.returncode # 0) =>
        /\ interp.outcome.ret = "returned"
        /\ interp.outcome.result = "crash"
        /\ interp.outcome.subtests = <<>>

C25_Witness ==
    /\ interp.op = "group"
    /\ interp.returncode = 1
    /\ WellFormedGroup(interp.out)
    /\ interp.outcome.result = "crash"
    /\ interp.outcome.subtests = <<>>

\* C26: with group rerun enabled the result of a group is withheld from the
\* sink (None is written) exactly when the cases of the group were queued for
\* the rerun: it is never both written and queued, never neither.
C26_WithheldIffQueued ==
    (grouprun.st \in {"running", "done"} /\ grouprun.group_rerun) =>
        \A g \in DOMAIN grouprun.groups :
            grouprun.groups[g].done =>
                /\ grouprun.groups[g].sink \in {"result", "None"}
                /\ grouprun.groups[g].sink = "None"
                    <=> grouprun.groups[g].queued

\* The cases of the groups whose status is in the rerun set.
CasesToRerun ==
    UNION {Range(GroupTests[g].cases) :
            g \in {h \in DOMAIN grouprun.groups :
                    grouprun.groups[h].result \in _RERUN}}

\* C27: when the run has ended, every case of every group whose status is
\* in the rerun set was executed exactly once in single-case mode and written
\* under its own name, and no case of another group was; no rerun starts
\* before every group has been run.
C27_RerunAfterGroups ==
    /\ (grouprun.st = "done" /\ grouprun.group_rerun) =>
        /\ \A c \in CasesToRerun :
            Cardinality({i \in 1..Len(grouprun.single) :
                            grouprun.single[i] = c}) = 1
        /\ Range(grouprun.single) \subseteq CasesToRerun
    /\ (grouprun.st = "running"
            /\ \E g \in DOMAIN grouprun.groups : ~grouprun.groups[g].done) =>
        grouprun.single = <<>>

\* ------------------------------------- claims on self-reporting tests

\* C28: the interpretation takes every marker line out of stdout: the out of
\* the result holds exactly the other lines, in the order they had, wherever
\* the markers stood.
C28_MarkersLeaveStdout ==
    interp.op = "piglit" =>
        /\ interp.outcome.out
            = SelectSeq(interp.out, LAMBDA l : l.k \notin {"result", "subtest"})
        /\ \A i \in 1..Len(interp.outcome.out) :
            interp.outcome.out[i].k = "text"

C28_Witness ==
    /\ interp.op = "piglit"
    /\ Len(interp.out) = 4
    /\ interp.out[1] = OutText("x")
    /\ interp.out[2].k = "result"
    /\ interp.out[3] = OutText("y")
    /\ interp.out[4].k = "subtest"
    /\ interp.outcome.out = <<OutText("x"), OutText("y")>>

\* The subtest markers of an output, in the order met.
SubtestMarkers(out) == SelectSeq(out, LAMBDA l : l.k = "subtest")

StartFiles(stream) ==
    LET ss == SelectSeq(stream, LAMBDA l : l.k = "start")
    IN [i \in 1..Len(ss) |-> ss[i].file]

\* The index of the n-th START line of a stream.
RECURSIVE StartAt(_, _)
StartAt(stream, n) ==
    IF n = 1 THEN NextStart(stream, 1)
    ELSE NextStart(stream, StartAt(stream, n - 1) + 1)

\* The text between the n-th START line of a stream and the next one.
TextOf(stream, n) ==
    LET s == StartAt(stream, n)
        e == IF n = Len(StartFiles(stream)) THEN Len(stream)
             ELSE StartAt(stream, n + 1) - 1
    IN SelectSeq(SubSeq(stream, s + 1, e), LAMBDA l : l.k = "text")

\* C30 as stated: when the first marker lists the files F1..Fn and stdout
\* and stderr each hold a START block for every file, in that order, the
\* interpretation returns n results in the order F1..Fn, each with the text
\* of its file alone as out and err and with the return code of the
\* process, and no list of files left to do.
C30_OneResultPerFile ==
    (interp.op = "shader" /\ interp.out # <<>>
        /\ interp.out[1].k = "enumerate"
        /\ StartFiles(interp.out) = interp.out[1].files
        /\ StartFiles(interp.err) = interp.out[1].files) =>
        LET fs == interp.out[1].files
            o == interp.outcome
        IN /\ o.ret = "returned"
           /\ o.todo = <<>>
           /\ Len(o.finished) = Len(fs)
           /\ \A i \in 1..Len(fs) :
                /\ o.finished[i].file = fs[i]
                /\ o.finished[i].out = TextOf(interp.out, i)
                /\ o.finished[i].err = TextOf(interp.err, i)
                /\ o.finished[i].returncode = interp.returncode

\* The statuses the result markers of the n-th block of a stream give.
Reported(stream, n) ==
    LET s == StartAt(stream, n)
        e == IF n = Len(StartFiles(stream)) THEN Len(stream)
             ELSE StartAt(stream, n + 1) - 1
    IN SelectSeq(SubSeq(stream, s + 1, e), LAMBDA l : l.k = "result")

\* C30 amended: under the same condition the interpretation returns n
\* results in the order F1..Fn, each with the text of its file alone as out
\* and err, and no list of files left to do; each has the return code of
\* the process unless the process ended on a signal, and then only a last
\* file that reported no result has it and the other files have 0.
C30_ExitCodeUnlessSignal ==
    (interp.op = "shader" /\ interp.out # <<>>
        /\ interp.out[1].k = "enumerate"
        /\ StartFiles(interp.out) = interp.out[1].files
        /\ StartFiles(interp.err) = interp.out[1].files) =>
        LET fs == interp.out[1].files
            o == interp.outcome
            rc == interp.returncode
        IN /\ o.ret = "returned"
           /\ o.todo = <<>>
           /\ Len(o.finished) = Len(fs)
           /\ \A i \in 1..Len(fs) :
                /\ o.finished[i].file = fs[i]
                /\ o.finished[i].out = TextOf(interp.out, i)
                /\ o.finished[i].err = TextOf(interp.err, i)
                /\ o.finished[i].returncode =
                    IF rc >= 0 THEN rc
                    ELSE IF i = Len(fs) /\ Reported(interp.out, i) = <<>>
                    THEN rc
                    ELSE 0

C30_Witness ==
    /\ interp.op = "shader"
    /\ interp.returncode = 0
    /\ interp.out = <<EnumerateMarker(<<"B", "A">>), StartLine("B"),
                      ResultMarker("pass"), OutText("x"), StartLine("A")>>
    /\ interp.err = <<StartLine("B"), StartLine("A")>>
    /\ interp.outcome.ret = "returned"
    /\ Len(interp.outcome.finished) = 2
    /\ interp.outcome.finished[1].out = <<OutText("x")>>
    /\ interp.outcome.finished[2].out = <<>>


\* ------------------------------------- claims on runs of several files

IsPrefix(s, t) == Len(s) <= Len(t) /\ s = SubSeq(t, 1, Len(s))

\* An interpretation of enumerated files, started in their order, that
\* ended on a signal or before every file was accounted for.
StoppedShort ==
    /\ interp.op = "shader"
    /\ interp.out # <<>>
    /\ interp.out[1].k = "enumerate"
    /\ interp.out[1].files = interp.files
    /\ IsPrefix(StartFiles(interp.out), interp.files)
    /\ interp.outcome.ret # "raised"
    /\ (interp.returncode < 0 \/ interp.outcome.ret = "interrupted")

\* What C31 says of such an interpretation, the file the process stopped at
\* taking the status stop.
StoppedAt(stop) ==
    LET o == interp.outcome
        n == Len(o.finished)
    IN /\ \A i \in 1..n :
            LET rs == Reported(interp.out, i)
            IN IF rs # <<>>
               THEN /\ o.finished[i].result = rs[Len(rs)].status
                    /\ o.finished[i].returncode = 0
               ELSE i = n =>
                    /\ o.finished[i].result = stop
                    /\ o.finished[i].returncode = interp.returncode
       /\ \A i \in 1..n : o.finished[i].file = interp.files[i]
       /\ o.todo = SubSeq(interp.files, n + 1, Len(interp.files))

\* C31 as stated: when the process ends on a signal or its streams end
\* before every enumerated file is accounted for, each file that reported
\* keeps its own status with return code 0, the last file, when it was
\* still running, has status crash and the return code of the process, and
\* the files after it are returned as still to do, in their order.
C31_CrashToLastFile == StoppedShort => StoppedAt("crash")

\* C31 amended: the same, but the file that was still running has status
\* fail when the return code of the process is positive, and crash
\* otherwise.
C31_StopStatusToLastFile ==
    StoppedShort =>
        StoppedAt(IF interp.returncode > 0 THEN "fail" ELSE "crash")

C31_Witness ==
    /\ StoppedShort
    /\ interp.files = <<"B", "A", "C">>
    /\ interp.returncode = -5
    /\ StartFiles(interp.out) = <<"B", "A">>
    /\ Len(interp.outcome.finished) = 2
    /\ interp.outcome.finished[1].result = "pass"
    /\ interp.outcome.finished[1].returncode = 0
    /\ interp.outcome.finished[2].result = "crash"
    /\ interp.outcome.finished[2].returncode = -5
    /\ interp.outcome.todo = <<"C">>

\* C32: when the first line of stdout is the marker of the result skip, the
\* interpretation gives exactly one result, skip, for the first file of the
\* command, and returns every other file of the command as still to do, in
\* the order of the command.
C32_SkipFirstFile ==
    (interp.op = "shader" /\ interp.out # <<>>
        /\ interp.out[1] = ResultMarker("skip")) =>
        /\ interp.outcome.ret = "interrupted"
        /\ Len(interp.outcome.finished) = 1
        /\ interp.outcome.finished[1].file = interp.files[1]
        /\ interp.outcome.finished[1].result = "skip"
        /\ interp.outcome.todo = Tail(interp.files)

C32_Witness ==
    /\ interp.op = "shader"
    /\ interp.files = <<"B", "A", "C">>
    /\ interp.out = <<ResultMarker("skip")>>
    /\ interp.outcome.finished[1].file = "B"
    /\ interp.outcome.todo = <<"A", "C">>

\* The files a command line of the run names.
RunFilesOf(r) == Tail(r._command)

\* The results the processes before the i-th one of a run gave.
RECURSIVE DoneBefore(_, _)
DoneBefore(r, i) ==
    IF i = 1 THEN 0
    ELSE DoneBefore(r, i - 1) + Len(r.calls[i - 1].outcome.finished)

\* Every process of the run was given fewer files than the one before it,
\* and a process that finished none of its files was the last one and made
\* the run fail.
StrictProgress ==
    interp.op = "multi" =>
        /\ \A i \in 2..Len(interp.argvs) :
            Len(FilesOf(interp.argvs[i])) < Len(FilesOf(interp.argvs[i - 1]))
        /\ \A i \in 1..Len(interp.calls) :
            (interp.calls[i].outcome.finished = <<>>
                /\ interp.calls[i].outcome.todo # <<>>) =>
                (i = Len(interp.calls) /\ interp.st = "failed")
        /\ Len(interp.argvs) <= Len(RunFilesOf(interp))

C34_ResumeWithTodoOnly ==
    interp.op = "multi" =>
        LET files == RunFilesOf(interp)
        IN /\ \A i \in 1..Len(interp.argvs) :
                /\ interp.argvs[i]
                    = <<Prog>>
                        \o SubSeq(files, DoneBefore(interp, i) + 1, Len(files))
                        \o Flags
                /\ \A j \in 1..DoneBefore(interp, i) :
                    \A a \in 1..Len(interp.argvs[i]) :
                        interp.argvs[i][a] # interp.finished[j].file
           /\ IsPrefix([i \in 1..Len(interp.finished) |->
                            interp.finished[i].file], files)
           /\ interp.st = "done" =>
                [i \in 1..Len(interp.finished) |-> interp.finished[i].file]
                    = files

C34_Witness ==
    /\ interp.op = "multi"
    /\ interp.st = "done"
    /\ RunFilesOf(interp) = <<"B", "A", "C">>
    /\ Len(interp.argvs) = 3
    /\ interp.argvs[2] = <<Prog, "A", "C", "-auto", "-report-subtests">>
    /\ interp.argvs[3] = <<Prog, "C", "-auto", "-report-subtests">>
    /\ interp.calls[1].returncode = -5
    /\ interp.finished[1].result = "crash"
    /\ Len(interp.finished) = 3

\* ------------------------------------- more claims on dEQP tests

\* The output of a call without the lines of its closed INFO blocks.
WithoutBlocks(out) ==
    LET lines == RStrip(out)
    IN SubSeq(lines, 1, BannerLines) \o OutsideBlocks(BodyOf(out), 1)
        \o SubSeq(lines, Len(lines) - TotalsLines + 1, Len(lines))

\* C36: with return code 0 the interpretation of a single case is the one
\* of its output without the INFO blocks, however many there are: no line
\* inside a block, the first or a later one, is read as a result line.
C36_BlocksAreSkipped ==
    (interp.op = "single" /\ interp.returncode = 0
        /\ Len(RStrip(interp.out)) >= BannerLines + TotalsLines
        /\ BlocksClosed(BodyOf(interp.out), 1)) =>
        interp.outcome
            = InterpretSingle(interp.platform, 0, WithoutBlocks(interp.out))

\* C37: in group mode with return code 0, when the output ends with the run
\* totals and they declare a total, the total read is the declared one,
\* whether the counts before the slash have one digit or more.
C37_TotalParsed ==
    (interp.op = "group" /\ interp.returncode = 0
        /\ DeclaredTotal(interp.out) > 0) =>
        /\ FindTotal(DropFirst(RStrip(interp.out), BannerLines))
            = DeclaredTotal(interp.out)
        /\ interp.outcome.exc # "AssertionError"

\* C38: the rerun queue a dEQP profile reads holds only cases of groups of
\* that profile, whatever the order in which the groups of the profiles of
\* the run are interpreted.
C38_QueuePerProfile ==
    grouprun.st \in {"running", "done"} =>
        \A p \in DeqpProfiles :
            \A i \in 1..Len(_rerun(p, grouprun.rerun)) :
                \E g \in DOMAIN grouprun.groups :
                    /\ GroupTests[g].profile = p
                    /\ _rerun(p, grouprun.rerun)[i]
                        \in Range(GroupTests[g].cases)

\* ------------------------------------- claims on update and reorder

\* C35: update(other) leaves the test list holding, for every key of the
\* other list, the test of the other list, and for every key the other list
\* lacks the test it held, and raises nothing, also for a key both lists
\* hold.
C35_UpdateOverwrites ==
    last.op = "update" =>
        /\ last.err = "none"
        /\ \A i \in 1..Len(last.other) :
            DictGet(container, last.other[i].key)
                = [err |-> "none", value |-> last.other[i].value]
        /\ \A i \in 1..Len(last.before) :
            (\A j \in 1..Len(last.other) :
                last.other[j].key # last.before[i].key) =>
                DictGet(container, last.before[i].key)
                    = [err |-> "none", value |-> last.before[i].value]
        /\ \A i \in 1..Len(container) :
            \/ \E j \in 1..Len(last.other) :
                last.other[j].key = container[i].key
            \/ \E j \in 1..Len(last.before) :
                last.before[j].key = container[i].key

\* C39: reorder and the forced list of Profile.filter match names against
\* the stored keys as they are written: reorder keeps exactly the stored
\* entries whose key stands in the list and drops every other one, a name
\* that is a stored key but for its case is missing like any unknown name
\* (an error unless allow_missing), and Profile.filter with a forced list
\* keeps no entry whose key does not stand in the list as written.
C39_ExactNameMatch ==
    /\ last.op = "reorder" =>
        LET missing == {k \in Range(last.order) :
                            \A e \in Range(last.before) : e.key # k}
        IN IF missing # {} /\ ~last.allow_missing
           THEN /\ last.err = "Cannot reorder test"
                /\ last.name \in missing
                /\ container = last.before
           ELSE /\ last.err = "none"
                /\ Range(container)
                    = {e \in Range(last.before) : e.key \in Range(last.order)}
    /\ (last.op = "profile_filter" /\ last.forced # <<>>) =>
        \A e \in Range(last.before) :
            e.key \notin Range(last.forced) => e \notin Range(container)

C39_Witness ==
    /\ last.op = "reorder"
    /\ last.allow_missing
    /\ Len(last.before) = 2
    /\ last.before[1].key = <<"a">>
    /\ last.order = <<<<"A">>, last.before[2].key>>
    /\ container = <<last.before[2]>>

====
